---------------------------- MODULE Spec2Model ----------------------------
(***************************************************************************)
(* A model of the dynamic QR code manager: the management API, the public  *)
(* resolver, the validators and the record store of its server variants.   *)
(*                                                                         *)
(*   Spec, SpecAuth, SpecClock, SpecPayload, SpecDecide, SpecEcho          *)
(*            the authenticated Supabase server (src/unnamed/part_000)     *)
(*   SpecFault                                                             *)
(*            the same server over a store that may fail a query           *)
(*   SpecMem  the in-memory server (src/server.js, first variant)          *)
(*   SpecOrigin                                                            *)
(*            the in-memory server under every configuration of its urls   *)
(*   SpecFrame, SpecResolve                                                *)
(*            the writes and the resolver of either server                 *)
(*   SpecRender                                                            *)
(*            the creates of either server when rendering may fail         *)
(*   SpecOverlap                                                           *)
(*            update requests of either server that overlap                *)
(*   SpecAnswer                                                            *)
(*            resolve requests of the in-memory server from arrival to     *)
(*            response, with the handler of an arrived request always run  *)
(*   SpecHard the hardened in-memory server (src/unnamed/part_001)         *)
(*   SpecFn   the Netlify functions (src/unnamed/part_005, part_006)       *)
(*   SpecValidateUrl, SpecValidateVCardData                                *)
(*            the validators of part_000 called on their own               *)
(*                                                                         *)
(* A JavaScript string is a sequence of one-character strings, so that     *)
(* trimming, prefix tests and percent-encoding are computed, not assumed.  *)
(***************************************************************************)
EXTENDS Integers, Sequences, FiniteSets, TLC

(***************************************************************************)
(* Bounds of the model.                                                    *)
(***************************************************************************)
\* Number of inserts the id sequence of the table (and nextId) may hand out.
MaxId == 2
\* Last instant of the clock.
MaxClock == 1
\* The most update requests in flight at once.
MaxInFlight == 2

(***************************************************************************)
(* Strings.                                                                *)
(***************************************************************************)
Upper == <<"A", "B", "C", "D", "E", "F", "G", "H", "I", "J", "K", "L", "M",
           "N", "O", "P", "Q", "R", "S", "T", "U", "V", "W", "X", "Y", "Z">>
Lower == <<"a", "b", "c", "d", "e", "f", "g", "h", "i", "j", "k", "l", "m",
           "n", "o", "p", "q", "r", "s", "t", "u", "v", "w", "x", "y", "z">>
Digits == <<"0", "1", "2", "3", "4", "5", "6", "7", "8", "9">>

Range(s) == {s[i] : i \in DOMAIN s}

\* A character outside ASCII (U+00E9), as one code point.
NonAscii == "é"

IsWhitespace(c) == c \in {" ", "\t", "\n", "\r"}
IsDigit(c) == c \in Range(Digits)
IsLetter(c) == c \in Range(Upper) \cup Range(Lower)

ToLowerChar(c) ==
    IF c \in Range(Upper)
    THEN Lower[CHOOSE i \in DOMAIN Upper : Upper[i] = c]
    ELSE c

\* String.prototype.toLowerCase
toLowerCase(s) == [i \in DOMAIN s |-> ToLowerChar(s[i])]

\* String.prototype.startsWith
startsWith(s, p) == Len(s) >= Len(p) /\ SubSeq(s, 1, Len(p)) = p

\* String.prototype.indexOf, 1-based; 0 when p does not occur in s.
indexOf(s, p) ==
    LET hits == {i \in 1..(Len(s) - Len(p) + 1) : SubSeq(s, i, i + Len(p) - 1) = p}
    IN  IF hits = {} THEN 0 ELSE CHOOSE i \in hits : \A j \in hits : i <= j

\* String.prototype.includes
includes(s, p) == indexOf(s, p) # 0

\* String.prototype.trim
trim(s) ==
    LET keep == {i \in DOMAIN s : ~IsWhitespace(s[i])}
    IN  IF keep = {} THEN <<>>
        ELSE SubSeq(s, CHOOSE i \in keep : \A j \in keep : i <= j,
                       CHOOSE i \in keep : \A j \in keep : i >= j)

\* The part of s before the first occurrence of p (all of s when there is none).
Before(s, p) == IF includes(s, p) THEN SubSeq(s, 1, indexOf(s, p) - 1) ELSE s

\* The part of s after the first occurrence of p.
After(s, p) == SubSeq(s, indexOf(s, p) + Len(p), Len(s))

\* s.split(sep) as a sequence of strings.
RECURSIVE split(_, _)
split(s, sep) ==
    IF includes(s, sep)
    THEN <<Before(s, sep)>> \o split(After(s, sep), sep)
    ELSE <<s>>

RECURSIVE Flatten(_)
Flatten(ss) == IF ss = <<>> THEN <<>> ELSE Head(ss) \o Flatten(Tail(ss))

\* parseInt(s, 10) of a string of decimal digits.
RECURSIVE parseInt(_)
parseInt(s) ==
    IF s = <<>> THEN 0
    ELSE 10 * parseInt(SubSeq(s, 1, Len(s) - 1))
         + (CHOOSE d \in 0..9 : Digits[d + 1] = s[Len(s)])

(***************************************************************************)
(* JavaScript values: a string, a number, an object (a function from field *)
(* names to values) or undefined.                                          *)
(***************************************************************************)
Str(s) == [t |-> "string", v |-> s]
Num == [t |-> "number", v |-> <<>>]
Obj(f) == [t |-> "object", v |-> f]
undefined == [t |-> "undefined", v |-> <<>>]

\* data[field]: undefined for a missing property.
Get(data, field) ==
    IF data.t = "object" /\ field \in DOMAIN data.v THEN data.v[field] ELSE undefined

\* JavaScript truthiness of the values of the model (a Num stands for a
\* non-zero number).
Truthy(x) ==
    CASE x.t = "undefined" -> FALSE
      [] x.t = "string" -> x.v # <<>>
      [] OTHER -> TRUE

(***************************************************************************)
(* The validator library, as far as the server uses it.                    *)
(***************************************************************************)
Ok(value) == [ok |-> TRUE, value |-> value, error |-> "none"]
Throw(message) == [ok |-> FALSE, value |-> undefined, error |-> message]

IsNumeric(s) == s # <<>> /\ \A i \in DOMAIN s : IsDigit(s[i])

\* validator.isIP(host, 4): four decimal numbers 0..255 without leading zeros.
isIP(host) ==
    LET parts == split(host, <<".">>)
    IN  /\ Len(parts) = 4
        /\ \A i \in 1..4 :
              /\ IsNumeric(parts[i])
              /\ Len(parts[i]) <= 3
              /\ (Len(parts[i]) > 1 => parts[i][1] # "0")
              /\ parseInt(parts[i]) <= 255

\* A character of a host label: /^[a-z_¡-￿0-9-]+$/i, with underscores
\* ruled out by allow_underscores: false.
IsLabelChar(c) == IsLetter(c) \/ IsDigit(c) \/ c = "-" \/ c = NonAscii

\* validator.isFQDN(host, {require_tld: true, allow_underscores: false,
\* allow_trailing_dot: false}).
isFQDN(host) ==
    LET parts == split(host, <<".">>)
        tld == parts[Len(parts)]
    IN  /\ Len(parts) >= 2
        /\ Len(tld) >= 2
        /\ \A i \in DOMAIN tld : IsLetter(tld[i]) \/ tld[i] = NonAscii
        /\ \A k \in DOMAIN parts :
              /\ parts[k] # <<>>
              /\ Len(parts[k]) <= 63
              /\ \A i \in DOMAIN parts[k] : IsLabelChar(parts[k][i])
              /\ parts[k][1] # "-"
              /\ parts[k][Len(parts[k])] # "-"

\* The userinfo rules of validator.isURL for the text before the first "@".
AuthOk(auth) ==
    /\ auth # <<>>
    /\ Len(split(auth, <<":">>)) <= 2
    /\ auth # <<":">>

\* The port rule of validator.isURL.
PortOk(port) ==
    port = <<>> \/ (IsNumeric(port) /\ Len(port) <= 5
                    /\ parseInt(port) > 0 /\ parseInt(port) <= 65535)

\* A variant of isURL that accepts any protocol (require_valid_protocol off).
isURLAnyProtocol(url) ==
    LET noFragment == Before(url, <<"#">>)
        noQuery == Before(noFragment, <<"?">>)
        sep == <<":", "/", "/">>
        protocol == toLowerCase(Before(noQuery, sep))
        rest == After(noQuery, sep)
        authority == Before(rest, <<"/">>)
        hostport == IF includes(authority, <<"@">>)
                    THEN After(authority, <<"@">>) ELSE authority
        host == Before(hostport, <<":">>)
        port == IF includes(hostport, <<":">>) THEN After(hostport, <<":">>) ELSE <<>>
    IN  /\ url # <<>>
        /\ \A i \in DOMAIN url : ~IsWhitespace(url[i]) /\ url[i] \notin {"<", ">"}
        /\ ~startsWith(url, <<"m", "a", "i", "l", "t", "o", ":">>)
        /\ includes(noQuery, sep)
        /\ protocol # <<>>
        /\ rest # <<>>
        /\ (includes(authority, <<"@">>) => AuthOk(Before(authority, <<"@">>)))
        /\ PortOk(port)
        /\ (isIP(host) \/ isFQDN(host))

\* validator.isURL(url, {protocols: ['http', 'https'], require_protocol: true,
\* require_valid_protocol: true, allow_underscores: false,
\* allow_trailing_dot: false, allow_protocol_relative_urls: false}).
isURL(url) ==
    LET noFragment == Before(url, <<"#">>)
        noQuery == Before(noFragment, <<"?">>)
        sep == <<":", "/", "/">>
        protocol == toLowerCase(Before(noQuery, sep))
        rest == After(noQuery, sep)
        authority == Before(rest, <<"/">>)
        hostport == IF includes(authority, <<"@">>)
                    THEN After(authority, <<"@">>) ELSE authority
        host == Before(hostport, <<":">>)
        port == IF includes(hostport, <<":">>) THEN After(hostport, <<":">>) ELSE <<>>
    IN  /\ url # <<>>
        /\ \A i \in DOMAIN url : ~IsWhitespace(url[i]) /\ url[i] \notin {"<", ">"}
        /\ ~startsWith(url, <<"m", "a", "i", "l", "t", "o", ":">>)
        /\ includes(noQuery, sep)
        /\ protocol \in {<<"h", "t", "t", "p">>, <<"h", "t", "t", "p", "s">>}
        /\ rest # <<>>
        /\ (includes(authority, <<"@">>) => AuthOk(Before(authority, <<"@">>)))
        /\ PortOk(port)
        /\ (isIP(host) \/ isFQDN(host))

\* new URL(url).hostname of a URL that isURL accepts: the host in lower case,
\* without userinfo and port.
hostname(url) ==
    LET rest == After(Before(Before(url, <<"#">>), <<"?">>), <<":", "/", "/">>)
        authority == Before(rest, <<"/">>)
        hostport == IF includes(authority, <<"@">>)
                    THEN After(authority, <<"@">>) ELSE authority
    IN  toLowerCase(Before(hostport, <<":">>))

\* The grave accent (U+0060), which a string literal cannot hold.
Backtick == "grave"

\* validator.escape
EscapeChar(c) ==
    CASE c = "&" -> <<"&", "a", "m", "p", ";">>
      [] c = "\"" -> <<"&", "q", "u", "o", "t", ";">>
      [] c = "'" -> <<"&", "#", "x", "2", "7", ";">>
      [] c = "<" -> <<"&", "l", "t", ";">>
      [] c = ">" -> <<"&", "g", "t", ";">>
      [] c = "/" -> <<"&", "#", "x", "2", "F", ";">>
      [] c = "\\" -> <<"&", "#", "x", "5", "C", ";">>
      [] c = Backtick -> <<"&", "#", "9", "6", ";">>
      [] OTHER -> <<c>>

escape(s) == Flatten([i \in DOMAIN s |-> EscapeChar(s[i])])

\* validator.isEmail with its default options: one "@", a local part of
\* unquoted atom characters and a fully qualified domain.
IsAtomChar(c) == IsLetter(c) \/ IsDigit(c) \/ c \in {".", "-", "_", "+"}

isEmail(s) ==
    LET parts == split(s, <<"@">>)
    IN  /\ Len(parts) = 2
        /\ parts[1] # <<>>
        /\ \A i \in DOMAIN parts[1] : IsAtomChar(parts[1][i])
        /\ parts[1][1] # "."
        /\ parts[1][Len(parts[1])] # "."
        /\ isFQDN(parts[2])

\* validator.isMobilePhone(s) for any locale: an optional "+" and digits
\* only, of a national mobile number's length.
isMobilePhone(s) ==
    LET digits == IF s # <<>> /\ s[1] = "+" THEN Tail(s) ELSE s
    IN  IsNumeric(digits) /\ Len(digits) >= 7 /\ Len(digits) <= 15

(***************************************************************************)
(* The environment of the process (process.env), fixed when it starts, and *)
(* the state of the authenticated Supabase server.                         *)
(***************************************************************************)
VARIABLES
    API_KEY,            \* process.env.API_KEY; "" when it is not set
    NODE_ENV,           \* process.env.NODE_ENV
    BASE_URL,           \* process.env.BASE_URL; <<>> when it is not set
    CUSTOM_SHORT_DOMAIN, \* process.env.CUSTOM_SHORT_DOMAIN; <<>> when not set
    qr_codes,           \* the rows of the table qr_codes
    qr_codes_id_seq,    \* the last value of the BIGSERIAL sequence of its id
    now,                \* the clock
    res,                \* the last request served, with its response
    issued,             \* history: the short ids given to created records
    fresh,              \* history: per short id, the body its record was created
                        \* from, while no update or delete has touched the record
    deleted,            \* history: short ids of deleted records not created again
    cleared,            \* history: a clear-all request was answered and no
                        \* create request has been served since
    qrCodes,            \* server.js: the array qrCodes
    nextId,             \* server.js: the counter nextId
    api_qrCodes,        \* part_006: the array qrCodes of the API function
    redirect_qrCodes,   \* part_005: the array qrCodes of the redirect function
    inflight,           \* the update requests whose handlers have started
                        \* and have not answered yet
    arg,                \* a call of a validator on its own: the function and
                        \* its argument
    ret                 \* the value the call returned or the error it threw

history == <<issued, fresh, deleted, cleared>>
call == <<arg, ret>>
functions == <<api_qrCodes, redirect_qrCodes>>
vars == <<API_KEY, NODE_ENV, BASE_URL, CUSTOM_SHORT_DOMAIN, qr_codes,
          qr_codes_id_seq, now, res, issued, fresh, deleted, cleared, qrCodes,
          nextId, api_qrCodes, redirect_qrCodes, inflight, arg, ret>>

(***************************************************************************)
(* Validation (part_000).                                                  *)
(***************************************************************************)
dangerousPatterns ==
    << <<"j", "a", "v", "a", "s", "c", "r", "i", "p", "t", ":">>,
       <<"d", "a", "t", "a", ":">>,
       <<"v", "b", "s", "c", "r", "i", "p", "t", ":">>,
       <<"f", "i", "l", "e", ":">>,
       <<"f", "t", "p", ":">>,
       <<"m", "a", "i", "l", "t", "o", ":">>,
       <<"t", "e", "l", ":">>,
       <<"s", "m", "s", ":">>,
       <<"c", "h", "r", "o", "m", "e", ":">>,
       <<"c", "h", "r", "o", "m", "e", "-", "e", "x", "t", "e", "n", "s", "i", "o", "n", ":">>,
       <<"m", "o", "z", "-", "e", "x", "t", "e", "n", "s", "i", "o", "n", ":">>,
       <<"a", "b", "o", "u", "t", ":">>,
       <<"b", "l", "o", "b", ":">>,
       <<"w", "s", ":">>,
       <<"w", "s", "s", ":">>,
       <<"g", "o", "p", "h", "e", "r", ":">>,
       <<"l", "d", "a", "p", ":">>,
       <<"l", "d", "a", "p", "s", ":">>
    >>

\* pattern.test(s) for a pattern /^scheme:/i
TestPattern(pattern, s) == startsWith(toLowerCase(s), pattern)

\* The host tests of validateUrl in production mode.
IsLocalHost(h) ==
    \/ h = <<"l", "o", "c", "a", "l", "h", "o", "s", "t">>
    \/ startsWith(h, <<"1", "2", "7", ".">>)
    \/ startsWith(h, <<"1", "9", "2", ".", "1", "6", "8", ".">>)
    \/ startsWith(h, <<"1", "0", ".">>)
    \/ startsWith(h, <<"1", "7", "2", ".">>)
    \/ h = <<"0", ".", "0", ".", "0", ".", "0">>

IsSuspiciousHost(h) ==
    \/ includes(h, <<".", ".">>)
    \/ includes(h, <<"@">>)
    \/ includes(h, <<"#">>)

\* validateUrl(url) under process.env.NODE_ENV = env: the trimmed url, or the
\* error thrown.
validateUrl(env, url) ==
    IF ~Truthy(url) \/ url.t # "string"
    THEN Throw("URL is required and must be a string")
    ELSE IF \E i \in DOMAIN dangerousPatterns : TestPattern(dangerousPatterns[i], trim(url.v))
    THEN Throw("Dangerous URL scheme not allowed")
    ELSE IF ~isURL(url.v)
    THEN Throw("Invalid URL format - only HTTP and HTTPS URLs are allowed")
    ELSE IF env = "production" /\ IsLocalHost(hostname(url.v))
    THEN Throw("Local/private URLs are not allowed in production")
    ELSE IF IsSuspiciousHost(hostname(url.v))
    THEN Throw("Suspicious URL patterns detected")
    ELSE Ok(Str(trim(url.v)))

required == <<"firstName", "lastName">>
allowed == <<"firstName", "lastName", "email", "phone", "organization", "title", "website">>

\* The longest sanitized contact field validateVCardData accepts.
MaxFieldLength == 100

\* A variant of the required-field test that does not trim.
RequiredMissingUntrimmed(data, field) ==
    \/ ~Truthy(Get(data, field))
    \/ Get(data, field).t # "string"
    \/ Get(data, field).v = <<>>

\* The required-field test of validateVCardData.
RequiredMissing(data, field) ==
    \/ ~Truthy(Get(data, field))
    \/ Get(data, field).t # "string"
    \/ trim(Get(data, field).v) = <<>>

\* A variant of the sanitizing loop that trims and does not escape.
SanitizedValueUnescaped(data, field) == trim(Get(data, field).v)

\* validator.escape(data[field].trim()) of the sanitizing loop.
SanitizedValue(data, field) == escape(trim(Get(data, field).v))

\* The sanitizing loop throws at a field: a truthy value without trim (a
\* TypeError) or a sanitized value that is too long.
SanitizeFails(data, field) ==
    /\ Truthy(Get(data, field))
    /\ \/ Get(data, field).t # "string"
       \/ Len(SanitizedValue(data, field)) > MaxFieldLength

\* validateVCardData(data): the sanitized object, or the error thrown.
validateVCardData(env, data) ==
    LET email == Get(data, "email")
        phone == Get(data, "phone")
        website == Get(data, "website")
        kept == {allowed[i] : i \in {j \in DOMAIN allowed : Truthy(Get(data, allowed[j]))}}
    IN  IF \E i \in DOMAIN required : RequiredMissing(data, required[i])
        THEN Throw("field is required")
        ELSE IF Truthy(email) /\ (email.t # "string" \/ ~isEmail(email.v))
        THEN Throw("Invalid email format")
        ELSE IF Truthy(phone) /\ (phone.t # "string" \/ ~isMobilePhone(phone.v))
        THEN Throw("Invalid phone format")
        ELSE IF Truthy(website) /\ ~validateUrl(env, website).ok
        THEN Throw("Invalid website URL")
        ELSE IF \E i \in DOMAIN allowed : SanitizeFails(data, allowed[i])
        THEN Throw("field is too long (max 100 characters)")
        ELSE Ok(Obj([f \in kept |-> Str(SanitizedValue(data, f))]))

\* The validateQRCode middleware: body('type').isIn(['link', 'vcard']) and
\* body('data').isObject().
validateQRCode(body) == body.type \in {"link", "vcard"} /\ body.data.t = "object"

\* The validation of the create and update handlers, after validateQRCode:
\* the data to persist (req.body.data), or the error answered with 400.
ValidateData(env, body) ==
    IF body.type = "link"
    THEN IF ~Truthy(Get(body.data, "url"))
         THEN Throw("URL is required for link type")
         ELSE IF ~validateUrl(env, Get(body.data, "url")).ok
         THEN Throw(validateUrl(env, Get(body.data, "url")).error)
         ELSE Ok(body.data)
    ELSE IF body.type = "vcard"
    THEN validateVCardData(env, body.data)
    ELSE Ok(body.data)

(***************************************************************************)
(* Express.                                                                *)
(***************************************************************************)
IsHexDigit(c) == IsDigit(c) \/ c \in {"a", "b", "c", "d", "e", "f", "A", "B", "C", "D", "E", "F"}

\* The percent-encoding of the character at position i of s, as encodeurl
\* (which res.location applies to the target of a redirect) does it: a
\* character that cannot stand in a URL is replaced by the escapes of its
\* UTF-8 bytes, a "%" that starts no escape by %25, anything else is kept.
EncodeAt(s, i) ==
    CASE s[i] = NonAscii -> <<"%", "C", "3", "%", "A", "9">>
      [] s[i] = "\"" -> <<"%", "2", "2">>
      [] s[i] = "{" -> <<"%", "7", "B">>
      [] s[i] = "}" -> <<"%", "7", "D">>
      [] s[i] = Backtick -> <<"%", "6", "0">>
      [] s[i] = "<" -> <<"%", "3", "C">>
      [] s[i] = ">" -> <<"%", "3", "E">>
      [] s[i] = " " -> <<"%", "2", "0">>
      [] s[i] = "\t" -> <<"%", "0", "9">>
      [] s[i] = "\n" -> <<"%", "0", "A">>
      [] s[i] = "\r" -> <<"%", "0", "D">>
      [] s[i] = "%" /\ ~(i + 2 <= Len(s) /\ IsHexDigit(s[i + 1]) /\ IsHexDigit(s[i + 2]))
           -> <<"%", "2", "5">>
      [] OTHER -> <<s[i]>>

encodeUrl(s) == Flatten([i \in DOMAIN s |-> EncodeAt(s, i)])

\* A variant of redirect that sets the Location header to the url as given,
\* without encoding it.
redirectRaw(url) == url

\* res.redirect(url): the Location header of the 302 response.
redirect(url) == encodeUrl(url)

(***************************************************************************)
(* The table qr_codes, as PostgREST answers the queries of the server.     *)
(***************************************************************************)
\* The path segments a request may name a record by.
IdParams == {ToString(i) : i \in 1..MaxId} \cup {"clear-all"}

\* Whether a path segment is the text of a BIGINT; a comparison of the id
\* column with any other text is an error of the query.
IsBigint(seg) == \E i \in 1..MaxId : ToString(i) = seg

ParseBigint(seg) == CHOOSE i \in 1..MaxId : ToString(i) = seg

\* .eq('id', seg)
EqId(table, seg) ==
    IF IsBigint(seg) THEN {r \in table : r.id = ParseBigint(seg)} ELSE {}

\* A variant of the short_id lookup that finds link records only.
EqShortIdLinks(table, shortId) == {r \in table : r.short_id = shortId /\ r.type = "link"}

\* .eq('short_id', shortId)
EqShortId(table, shortId) == {r \in table : r.short_id = shortId}

\* The row an insert adds: the id from the sequence, both timestamps from
\* the column defaults.
NewRow(id, short_id, type, data) ==
    [id |-> id, short_id |-> short_id, type |-> type, data |-> data,
     created_at |-> now, updated_at |-> now]

\* short_id TEXT UNIQUE: the insert is refused.
UniqueViolation(table, short_id) == \E r \in table : r.short_id = short_id

\* A variant of the update that writes the type and leaves the data.
UpdatedRowKindOnly(r, type, data) == [r EXCEPT !.type = type, !.updated_at = now]

\* A variant of the update that also writes created_at.
UpdatedRowRestamped(r, type, data) ==
    [r EXCEPT !.type = type, !.data = data, !.created_at = now, !.updated_at = now]

\* .update({type, data, updated_at}).eq('id', seg)
UpdatedRow(r, type, data) ==
    [r EXCEPT !.type = type, !.data = data, !.updated_at = now]

UpdateTable(table, seg, type, data) ==
    (table \ EqId(table, seg)) \cup {UpdatedRow(r, type, data) : r \in EqId(table, seg)}

\* A variant of the delete that removes no row.
DeleteTableNone(table, seg) == table

\* .delete().eq('id', seg)
DeleteTable(table, seg) == table \ EqId(table, seg)

\* .delete().neq('id', 0)
ClearTable(table) == {r \in table : r.id = 0}

(***************************************************************************)
(* Requests and responses.                                                 *)
(***************************************************************************)
NoBody == [type |-> "", data |-> undefined]

\* The headers of a request of which no handler has read the origin.
NoHeaders == [forwardedProto |-> <<>>, protocol |-> <<>>, host |-> <<>>]

\* A request on its way through the middleware: the response fields are
\* filled in by whoever answers it.
Request(op, hdr, qry, param, body) ==
    [op |-> op, hdr |-> hdr, qry |-> qry, param |-> param, body |-> body,
     handler |-> "none", status |-> 0, message |-> "", location |-> <<>>,
     rows |-> {}, text |-> <<>>, filename |-> <<>>,
     shortId |-> "", queries |-> 0, inserts |-> 0, collided |-> FALSE,
     qrUrls |-> {}, storeError |-> "", renderError |-> "", headers |-> NoHeaders]

Answer(req, handler, status, message) ==
    [req EXCEPT !.handler = handler, !.status = status, !.message = message]

\* A variant of the middleware that only checks that a key was supplied.
authenticateAPIKeyLax(hdr, qry) ==
    LET apiKey == IF hdr # "" THEN hdr ELSE qry
    IN  IF API_KEY = "" THEN 500
        ELSE IF apiKey = "" THEN 401
        ELSE 0

\* A variant of the middleware that lets every request pass while no key
\* is configured.
authenticateAPIKeyOpen(hdr, qry) ==
    LET apiKey == IF hdr # "" THEN hdr ELSE qry
    IN  IF API_KEY = "" THEN 0
        ELSE IF apiKey = "" \/ apiKey # API_KEY THEN 401
        ELSE 0

\* authenticateAPIKey: 0 to call next(), else the status it answers with.
authenticateAPIKey(hdr, qry) ==
    LET apiKey == IF hdr # "" THEN hdr ELSE qry
    IN  IF API_KEY = "" THEN 500
        ELSE IF apiKey = "" \/ apiKey # API_KEY THEN 401
        ELSE 0

AuthMessage(status) ==
    IF status = 500 THEN "API authentication not configured"
    ELSE "Invalid or missing API key"

(***************************************************************************)
(* The requests the model sends.                                           *)
(***************************************************************************)
\* The tokens nanoid(8) may return: any token, one in use included.
ShortIds == {"V1StGXR8", "3h7Kq0Zp"}

\* The X-API-Key header and the api_key query parameter of a request; ""
\* when the request has none.
Credentials ==
    {<<"", "">>, <<"secret", "">>, <<"wrong", "">>, <<"", "secret">>, <<"wrong", "secret">>}

\* The credentials of a client that has the key.
KeyHolder == {<<"secret", "">>}

UrlPlain == <<"h", "t", "t", "p", ":", "/", "/", "a", ".", "c", "o">>
UrlNonAscii == UrlPlain \o <<"/", NonAscii>>
UrlPadded == <<" ">> \o UrlPlain
UrlScript == <<"j", "a", "v", "a", "s", "c", "r", "i", "p", "t", ":", "x">>
UrlPrivate == <<"h", "t", "t", "p", ":", "/", "/", "1", "0", ".", "0", ".", "0", ".", "1">>

Jane == <<"J", "a", "n", "e">>
Doe == <<"D", "o", "e">>
JaneMail == <<"j", "a", "n", "e", "@", "x", ".", "c", "o", "m">>

LinkBody(url) == [type |-> "link", data |-> Obj([f \in {"url"} |-> Str(url)])]

JaneDoe ==
    [type |-> "vcard",
     data |-> Obj([f \in {"firstName", "lastName", "email"} |->
                      CASE f = "firstName" -> Str(Jane)
                        [] f = "lastName" -> Str(Doe)
                        [] OTHER -> Str(JaneMail)])]

\* Request bodies: accepted ones and ones each validation step refuses.
Bodies ==
    {LinkBody(UrlPlain), LinkBody(UrlNonAscii), LinkBody(UrlPrivate), JaneDoe,
     LinkBody(UrlPadded), LinkBody(UrlScript),
     [type |-> "link", data |-> Obj([f \in {"name"} |-> Str(Jane)])],
     [type |-> "vcard", data |-> Obj([f \in {"firstName"} |-> Str(Jane)])],
     [type |-> "page", data |-> Obj([f \in {"url"} |-> Str(UrlPlain)])],
     [type |-> "link", data |-> Str(UrlPlain)]}

\* A link that also has a contact field, and contact cards: with an
\* organization of whitespace, and with a url and a field that
\* validateVCardData does not recognize.
LinkWithName ==
    [type |-> "link",
     data |-> Obj([f \in {"url", "firstName"} |->
                      IF f = "url" THEN Str(UrlPlain) ELSE Str(Jane)])]

JaneBlankOrg ==
    [type |-> "vcard",
     data |-> Obj([f \in {"firstName", "lastName", "email", "organization"} |->
                      CASE f = "firstName" -> Str(Jane)
                        [] f = "lastName" -> Str(Doe)
                        [] f = "email" -> Str(JaneMail)
                        [] OTHER -> Str(<<" ">>)])]

JaneWithUrl ==
    [type |-> "vcard",
     data |-> Obj([f \in {"firstName", "lastName", "url", "nickname"} |->
                      CASE f = "firstName" -> Str(Jane)
                        [] f = "lastName" -> Str(Doe)
                        [] f = "url" -> Str(UrlPlain)
                        [] OTHER -> Str(<<"<", "b", ">">>)])]

\* The bodies of the requests that probe what is stored.
PayloadBodies == {LinkBody(UrlPlain), LinkWithName, JaneDoe, JaneBlankOrg, JaneWithUrl}

\* The bodies of the requests that probe the authentication.
ProbeBodies == {LinkBody(UrlPlain), LinkBody(UrlScript)}

Environments == {"development", "production"}

\* Contact cards with a website, and with a name that has an apostrophe.
JaneSite ==
    [type |-> "vcard",
     data |-> Obj([f \in {"firstName", "lastName", "website"} |->
                      CASE f = "firstName" -> Str(Jane)
                        [] f = "lastName" -> Str(Doe)
                        [] OTHER -> Str(UrlPlain)])]

JaneONeil ==
    [type |-> "vcard",
     data |-> Obj([f \in {"firstName", "lastName"} |->
                      IF f = "firstName" THEN Str(Jane)
                      ELSE Str(<<"O", "'", "N", "e", "i", "l">>)])]

\* The two cards as get returns them once they are stored.
JaneSiteStored ==
    [type |-> "vcard",
     data |-> Obj([f \in {"firstName", "lastName", "website"} |->
                      CASE f = "firstName" -> Str(Jane)
                        [] f = "lastName" -> Str(Doe)
                        [] OTHER -> Str(<<"h", "t", "t", "p", ":", "&", "#", "x", "2", "F", ";",
                                          "&", "#", "x", "2", "F", ";", "a", ".", "c", "o">>)])]

JaneONeilStored ==
    [type |-> "vcard",
     data |-> Obj([f \in {"firstName", "lastName"} |->
                      IF f = "firstName" THEN Str(Jane)
                      ELSE Str(<<"O", "&", "#", "x", "2", "7", ";", "N", "e", "i", "l">>)])]

\* The bodies of the requests that send a record back as it was read: the
\* cards records are created from, and the cards as they are stored
\* (JaneDoe is stored as it was sent).
SeedBodies == {JaneDoe, JaneSite, JaneONeil}
EchoBodies == SeedBodies \cup {JaneSiteStored, JaneONeilStored}

\* ValidateData over the bodies and environments of the model, computed once.
Validated ==
    [env \in Environments |->
        [body \in Bodies \cup PayloadBodies \cup EchoBodies |-> ValidateData(env, body)]]

\* The validation of a request body under the environment of the process.
ValidateBody(body) == Validated[NODE_ENV][body]


(***************************************************************************)
(* The route handlers of the authenticated Supabase server (part_000).     *)
(* Each makes one query; its outcome is the response with the table and    *)
(* the id sequence the query leaves.                                       *)
(***************************************************************************)
Outcome(r, table, seq) == [res |-> r, table |-> table, seq |-> seq]

\* The outcome of a request answered without a query.
Rejected(req, handler, status, message) ==
    Outcome(Answer(req, handler, status, message), qr_codes, qr_codes_id_seq)

\* A request on which the handler has made its query.
Queried(req) == [req EXCEPT !.queries = 1]

\* What the store may answer a query with: the error text of a failure of
\* its own, or "" for none.
StoreAnswers == {"", "connection refused"}

\* A request whose query the store answers with e, and whether the answer
\* is a failure.
Meeting(req, e) == [req EXCEPT !.storeError = e]
Failed(req) == req.storeError # ""

\* What QRCode.toDataURL may answer the url of a record with: the message
\* of the error it rejects with, or "" when it renders the image.
RenderAnswers == {"", "The amount of data is too big to be stored in a QR Code"}

\* A request whose image the renderer answers with e, and whether the
\* answer is a failure.
Rendering(req, e) == [req EXCEPT !.renderError = e]
RenderFailed(req) == req.renderError # ""

\* app.get('/api/qr')
GetAll(req) ==
    IF Failed(req)
    THEN Rejected(Queried(req), "GET /api/qr", 500, "Failed to fetch QR codes")
    ELSE
    Outcome([Answer(Queried(req), "GET /api/qr", 200, "") EXCEPT !.rows = qr_codes],
            qr_codes, qr_codes_id_seq)

\* app.get('/api/qr/:id')
GetOne(req) ==
    IF Failed(req) \/ EqId(qr_codes, req.param) = {}
    THEN Rejected(Queried(req), "GET /api/qr/:id", 404, "QR code not found")
    ELSE Outcome([Answer(Queried(req), "GET /api/qr/:id", 200, "")
                     EXCEPT !.rows = EqId(qr_codes, req.param)],
                 qr_codes, qr_codes_id_seq)

\* app.post('/api/qr'), with shortId the token nanoid(8) returns.  The row
\* is inserted before the image is rendered: a renderer that fails changes
\* the answer and not the table.
PostQr(req, shortId) ==
    IF ~validateQRCode(req.body)
    THEN Rejected(req, "validateQRCode", 400, "Validation failed")
    ELSE IF ~ValidateBody(req.body).ok
    THEN Rejected(req, "POST /api/qr", 400, ValidateBody(req.body).error)
    ELSE IF Failed(req)
    THEN Outcome([Answer(Queried(req), "POST /api/qr", 500, "Failed to create QR code")
                     EXCEPT !.shortId = shortId, !.inserts = 1],
                 qr_codes, qr_codes_id_seq)
    ELSE IF UniqueViolation(qr_codes, shortId)
    THEN Outcome([Answer(Queried(req), "POST /api/qr", 500, "Failed to create QR code")
                     EXCEPT !.shortId = shortId, !.inserts = 1, !.collided = TRUE],
                 qr_codes, qr_codes_id_seq + 1)
    ELSE LET row == NewRow(qr_codes_id_seq + 1, shortId, req.body.type,
                           ValidateBody(req.body).value)
         IN  Outcome([Answer(Queried(req), "POST /api/qr",
                             IF RenderFailed(req) THEN 500 ELSE 200,
                             IF RenderFailed(req) THEN "Failed to create QR code" ELSE "")
                         EXCEPT !.shortId = shortId, !.inserts = 1,
                                !.rows = IF RenderFailed(req) THEN {} ELSE {row}],
                     qr_codes \cup {row}, qr_codes_id_seq + 1)

\* A variant of the update handler that writes the submitted data without
\* running the per-type validation on it.
PutQrUnchecked(req) ==
    IF ~validateQRCode(req.body)
    THEN Rejected(req, "validateQRCode", 400, "Validation failed")
    ELSE IF EqId(qr_codes, req.param) = {}
    THEN Rejected(Queried(req), "PUT /api/qr/:id", 500, "Failed to update QR code")
    ELSE LET table == UpdateTable(qr_codes, req.param, req.body.type, req.body.data)
         IN  Outcome([Answer(Queried(req), "PUT /api/qr/:id", 200, "")
                         EXCEPT !.rows = EqId(table, req.param)],
                     table, qr_codes_id_seq)

\* app.put('/api/qr/:id')
PutQr(req) ==
    IF ~validateQRCode(req.body)
    THEN Rejected(req, "validateQRCode", 400, "Validation failed")
    ELSE IF ~ValidateBody(req.body).ok
    THEN Rejected(req, "PUT /api/qr/:id", 400, ValidateBody(req.body).error)
    ELSE IF Failed(req) \/ EqId(qr_codes, req.param) = {}
    THEN Rejected(Queried(req), "PUT /api/qr/:id", 500, "Failed to update QR code")
    ELSE LET table == UpdateTable(qr_codes, req.param, req.body.type,
                                  ValidateBody(req.body).value)
         IN  Outcome([Answer(Queried(req), "PUT /api/qr/:id", 200, "")
                         EXCEPT !.rows = EqId(table, req.param)],
                     table, qr_codes_id_seq)

\* app.delete('/api/qr/:id')
DeleteQr(req) ==
    IF Failed(req) \/ ~IsBigint(req.param)
    THEN Rejected(Queried(req), "DELETE /api/qr/:id", 500, "Failed to delete QR code")
    ELSE Outcome(Answer(Queried(req), "DELETE /api/qr/:id", 200, "success"),
                 DeleteTable(qr_codes, req.param), qr_codes_id_seq)

\* app.delete('/api/qr/clear-all')
ClearAll(req) ==
    IF Failed(req)
    THEN Rejected(Queried(req), "DELETE /api/qr/clear-all", 500, "Failed to clear QR codes")
    ELSE
    Outcome(Answer(Queried(req), "DELETE /api/qr/clear-all", 200,
                   "All QR codes cleared successfully"),
            ClearTable(qr_codes), qr_codes_id_seq)

\* app.get('/api/qr/:id/image')
GetImage(req) ==
    IF Failed(req) \/ EqId(qr_codes, req.param) = {}
    THEN Rejected(Queried(req), "GET /api/qr/:id/image", 404, "QR code not found")
    ELSE Rejected(Queried(req), "GET /api/qr/:id/image", 200, "image/png")

\* The DELETE routes under /api/qr, in the order the server registers them;
\* the router hands a request to the first whose path matches.
DeleteRoutes == <<"DELETE /api/qr/:id", "DELETE /api/qr/clear-all">>

RouteMatches(route, seg) ==
    IF route = "DELETE /api/qr/:id" THEN TRUE ELSE seg = "clear-all"

Route(seg) ==
    DeleteRoutes[CHOOSE i \in DOMAIN DeleteRoutes :
                    /\ RouteMatches(DeleteRoutes[i], seg)
                    /\ \A j \in 1..(i - 1) : ~RouteMatches(DeleteRoutes[j], seg)]

\* A DELETE request under /api/qr, as the handler of its route answers it.
DeleteDispatch(req) ==
    IF Route(req.param) = "DELETE /api/qr/:id" THEN DeleteQr(req) ELSE ClearAll(req)

\* The vCard text of the resolver: the lines of its template literal.
VCardField(data, field) == Get(data, field).v

\* A variant of the optional line that is written whether or not the record
\* has the field.
OptionalLineAlways(data, field, label) == label \o VCardField(data, field)

OptionalLine(data, field, label) ==
    IF Truthy(Get(data, field)) THEN label \o VCardField(data, field) ELSE <<>>

VCardLines(data) ==
    << <<"B", "E", "G", "I", "N", ":", "V", "C", "A", "R", "D">>,
       <<"V", "E", "R", "S", "I", "O", "N", ":", "3", ".", "0">>,
       <<"F", "N", ":">> \o VCardField(data, "firstName") \o <<" ">>
           \o VCardField(data, "lastName"),
       <<"N", ":">> \o VCardField(data, "lastName") \o <<";">>
           \o VCardField(data, "firstName") \o <<";", ";", ";">>,
       OptionalLine(data, "email", <<"E", "M", "A", "I", "L", ":">>),
       OptionalLine(data, "phone", <<"T", "E", "L", ":">>),
       OptionalLine(data, "organization", <<"O", "R", "G", ":">>),
       OptionalLine(data, "title", <<"T", "I", "T", "L", "E", ":">>),
       OptionalLine(data, "website", <<"U", "R", "L", ":">>),
       <<"E", "N", "D", ":", "V", "C", "A", "R", "D">> >>

\* The line break of the template literal in the source file.
LineBreak == <<"\n">>

RECURSIVE Join(_, _)
Join(lines, sep) ==
    IF Len(lines) = 1 THEN Head(lines)
    ELSE Head(lines) \o sep \o Join(Tail(lines), sep)

VCardText(data) == Join(VCardLines(data), LineBreak)

VCardFilename(data) ==
    VCardField(data, "firstName") \o <<"-">> \o VCardField(data, "lastName")
        \o <<".", "v", "c", "f">>

\* The data a record can hold: what the validation stage hands to the store.
StoredData ==
    UNION {{Validated[env][body].value :
                body \in {b \in Bodies \cup PayloadBodies :
                             validateQRCode(b) /\ Validated[env][b].ok}} :
           env \in Environments}

\* The redirect target and the contact card of each storable data, computed
\* once.
Locations == [data \in StoredData |-> redirect(Get(data, "url").v)]

Cards ==
    [data \in StoredData |->
        [text |-> VCardText(data), filename |-> VCardFilename(data)]]

\* A variant of the resolver that stamps the record it resolves with the
\* time of the scan.
ResolveStamping(req) ==
    IF EqShortId(qr_codes, req.param) = {}
    THEN Rejected(Queried(req), "GET /q/:shortId", 404, "QR Code Not Found")
    ELSE Outcome(Answer(Queried(req), "GET /q/:shortId", 302, "redirect"),
                 (qr_codes \ EqShortId(qr_codes, req.param))
                    \cup {[r EXCEPT !.updated_at = now] :
                             r \in EqShortId(qr_codes, req.param)},
                 qr_codes_id_seq)

\* app.get('/q/:shortId')
Resolve(req) ==
    IF Failed(req) \/ EqShortId(qr_codes, req.param) = {}
    THEN Rejected(Queried(req), "GET /q/:shortId", 404, "QR Code Not Found")
    ELSE LET data == CHOOSE r \in EqShortId(qr_codes, req.param) : TRUE
         IN  IF data.type = "link"
             THEN Outcome([Answer(Queried(req), "GET /q/:shortId", 302, "redirect")
                              EXCEPT !.location = Locations[data.data]],
                          qr_codes, qr_codes_id_seq)
             ELSE IF data.type = "vcard"
             THEN Outcome([Answer(Queried(req), "GET /q/:shortId", 200, "text/vcard")
                              EXCEPT !.text = Cards[data.data].text,
                                     !.filename = Cards[data.data].filename],
                          qr_codes, qr_codes_id_seq)
             ELSE Rejected(Queried(req), "GET /q/:shortId", 0, "no response")

\* A management route: authenticateAPIKey first, the handler only after it
\* called next().
Authenticated(req, outcome) ==
    IF authenticateAPIKey(req.hdr, req.qry) # 0
    THEN Rejected(req, "authenticateAPIKey", authenticateAPIKey(req.hdr, req.qry),
                  AuthMessage(authenticateAPIKey(req.hdr, req.qry)))
    ELSE outcome

(***************************************************************************)
(* The authenticated Supabase server: one action per request.              *)
(***************************************************************************)
\* No validator has been called on its own, and the result of a call that
\* has not returned yet.
NoCall == [fn |-> "none", value |-> undefined]
Pending == [ok |-> FALSE, value |-> undefined, error |-> "pending"]

\* Nothing is stored and no request has been served.
Started ==
    /\ qr_codes = {}
    /\ qr_codes_id_seq = 0
    /\ now = 0
    /\ res = Request("none", "", "", "", NoBody)
    /\ issued = {}
    /\ fresh = [s \in ShortIds |-> NoBody]
    /\ deleted = {}
    /\ cleared = FALSE
    /\ qrCodes = <<>>
    /\ nextId = 1
    /\ api_qrCodes = <<>>
    /\ redirect_qrCodes = <<>>
    /\ inflight = {}

\* The process has started with no origin configured.
Boot ==
    /\ API_KEY \in {"", "secret"}
    /\ NODE_ENV \in {"development", "production"}
    /\ BASE_URL = <<>>
    /\ CUSTOM_SHORT_DOMAIN = <<>>
    /\ Started

Init == Boot /\ arg = NoCall /\ ret = Pending

\* The response is sent and the query has taken effect.
Serve(o) ==
    /\ res' = o.res
    /\ qr_codes' = o.table
    /\ qr_codes_id_seq' = o.seq
    /\ UNCHANGED <<API_KEY, NODE_ENV, BASE_URL, CUSTOM_SHORT_DOMAIN, now, qrCodes, nextId>>
    /\ UNCHANGED call
    /\ UNCHANGED inflight
    /\ UNCHANGED functions

\* The short ids of the records a request for the path segment seg is
\* about: the record with that id, or every record for clear-all.
Addressed(seg) ==
    {r.short_id : r \in {x \in qr_codes : seg = "clear-all" \/ seg = ToString(x.id)}}

\* The history after a create has been answered with o: it follows the row
\* the insert added.
Created(o, body, shortId) ==
    /\ o.seq <= MaxId
    /\ Serve(o)
    /\ issued' = IF o.table # qr_codes THEN issued \cup {shortId} ELSE issued
    /\ fresh' = IF o.table # qr_codes THEN [fresh EXCEPT ![shortId] = body] ELSE fresh
    /\ deleted' = IF o.table # qr_codes THEN deleted \ {shortId} ELSE deleted
    /\ cleared' = FALSE

\* The history after an update of the record at seg has been answered with o.
Updated(o, seg) ==
    /\ Serve(o)
    /\ fresh' = IF o.res.status = 200
                THEN [s \in ShortIds |-> IF s \in Addressed(seg) THEN NoBody ELSE fresh[s]]
                ELSE fresh
    /\ UNCHANGED <<deleted, cleared>>

\* The history after a delete request for seg has been answered with o.
Deleted(o, seg) ==
    /\ Serve(o)
    /\ deleted' = IF o.res.status = 200 THEN deleted \cup Addressed(seg) ELSE deleted
    /\ fresh' = IF o.res.status = 200
                THEN [s \in ShortIds |-> IF s \in Addressed(seg) THEN NoBody ELSE fresh[s]]
                ELSE fresh
    /\ cleared' = IF seg = "clear-all" /\ o.res.handler # "authenticateAPIKey"
                  THEN TRUE ELSE cleared

\* Each action is a request of a client whose credentials are among
\* credentials and whose body is among bodies.
ListRequest(credentials) ==
    /\ UNCHANGED history
    /\ \E c \in credentials :
          Serve(Authenticated(Request("list", c[1], c[2], "", NoBody),
                              GetAll(Request("list", c[1], c[2], "", NoBody))))

GetRequest(credentials) ==
    /\ UNCHANGED history
    /\ \E c \in credentials, id \in IdParams :
          Serve(Authenticated(Request("get", c[1], c[2], id, NoBody),
                              GetOne(Request("get", c[1], c[2], id, NoBody))))

CreateRequest(credentials, bodies) ==
    /\ qr_codes_id_seq <= MaxId
    /\ \E c \in credentials, body \in bodies, shortId \in ShortIds :
          Created(Authenticated(Request("create", c[1], c[2], "", body),
                                PostQr(Request("create", c[1], c[2], "", body), shortId)),
                  body, shortId)

UpdateRequest(credentials, bodies) ==
    /\ UNCHANGED issued
    /\ \E c \in credentials, id \in IdParams, body \in bodies :
          Updated(Authenticated(Request("update", c[1], c[2], id, body),
                                PutQr(Request("update", c[1], c[2], id, body))),
                  id)

DeleteRequest(credentials) ==
    /\ UNCHANGED issued
    /\ \E c \in credentials, seg \in IdParams :
          Deleted(Authenticated(Request("delete", c[1], c[2], seg, NoBody),
                                DeleteDispatch(Request("delete", c[1], c[2], seg, NoBody))),
                  seg)

ImageRequest(credentials) ==
    /\ UNCHANGED history
    /\ \E c \in credentials, id \in IdParams :
          Serve(Authenticated(Request("image", c[1], c[2], id, NoBody),
                              GetImage(Request("image", c[1], c[2], id, NoBody))))

ResolveRequest ==
    /\ UNCHANGED history
    /\ \E shortId \in ShortIds \cup {"unknown"} :
          Serve(Resolve(Request("resolve", "", "", shortId, NoBody)))

\* Time passes.
Tick ==
    /\ now < MaxClock
    /\ now' = now + 1
    /\ UNCHANGED <<API_KEY, NODE_ENV, BASE_URL, CUSTOM_SHORT_DOMAIN, qr_codes, qr_codes_id_seq, res, qrCodes, nextId>>
    /\ UNCHANGED history
    /\ UNCHANGED call
    /\ UNCHANGED inflight
    /\ UNCHANGED functions

\* The requests of clients with the given credentials and bodies.
Requests(credentials, bodies) ==
    \/ ListRequest(credentials)
    \/ GetRequest(credentials)
    \/ CreateRequest(credentials, bodies)
    \/ UpdateRequest(credentials, bodies)
    \/ DeleteRequest(credentials)
    \/ ImageRequest(credentials)
    \/ ResolveRequest

\* The server with its key configured, used by clients that have the key.
Next == Requests(KeyHolder, Bodies)

\* The server started with its key configured.
InitKeyed == Init /\ API_KEY = "secret"

Spec == InitKeyed /\ [][Next]_vars

\* The server with or without a key configured, and clients with every
\* kind of credentials.
NextAuth == Requests(Credentials, ProbeBodies)

SpecAuth == Init /\ [][NextAuth]_vars

\* The server with its key configured while time passes.
NextClock == Requests(KeyHolder, ProbeBodies) \/ Tick

SpecClock == InitKeyed /\ [][NextClock]_vars

\* Requests of each kind to a store that may answer the query with an error.
FlakyList(credentials) ==
    /\ UNCHANGED history
    /\ \E e \in StoreAnswers, c \in credentials :
          Serve(Authenticated(Meeting(Request("list", c[1], c[2], "", NoBody), e),
                              GetAll(Meeting(Request("list", c[1], c[2], "", NoBody), e))))

FlakyGet(credentials) ==
    /\ UNCHANGED history
    /\ \E e \in StoreAnswers, c \in credentials, id \in IdParams :
          Serve(Authenticated(Meeting(Request("get", c[1], c[2], id, NoBody), e),
                              GetOne(Meeting(Request("get", c[1], c[2], id, NoBody), e))))

FlakyCreate(credentials, bodies) ==
    /\ qr_codes_id_seq <= MaxId
    /\ \E e \in StoreAnswers, c \in credentials, body \in bodies, shortId \in ShortIds :
          Created(Authenticated(Meeting(Request("create", c[1], c[2], "", body), e),
                                PostQr(Meeting(Request("create", c[1], c[2], "", body), e),
                                       shortId)),
                  body, shortId)

FlakyUpdate(credentials, bodies) ==
    /\ UNCHANGED issued
    /\ \E e \in StoreAnswers, c \in credentials, id \in IdParams, body \in bodies :
          Updated(Authenticated(Meeting(Request("update", c[1], c[2], id, body), e),
                                PutQr(Meeting(Request("update", c[1], c[2], id, body), e))),
                  id)

FlakyDelete(credentials) ==
    /\ UNCHANGED issued
    /\ \E e \in StoreAnswers, c \in credentials, seg \in IdParams :
          Deleted(Authenticated(Meeting(Request("delete", c[1], c[2], seg, NoBody), e),
                                DeleteDispatch(Meeting(Request("delete", c[1], c[2], seg,
                                                       NoBody), e))),
                  seg)

FlakyImage(credentials) ==
    /\ UNCHANGED history
    /\ \E e \in StoreAnswers, c \in credentials, id \in IdParams :
          Serve(Authenticated(Meeting(Request("image", c[1], c[2], id, NoBody), e),
                              GetImage(Meeting(Request("image", c[1], c[2], id, NoBody), e))))

FlakyResolve ==
    /\ UNCHANGED history
    /\ \E e \in StoreAnswers, shortId \in ShortIds \cup {"unknown"} :
          Serve(Resolve(Meeting(Request("resolve", "", "", shortId, NoBody), e)))

\* The server with its key configured and a store that may fail.
NextFault ==
    \/ FlakyList(KeyHolder)
    \/ FlakyGet(KeyHolder)
    \/ FlakyCreate(KeyHolder, ProbeBodies)
    \/ FlakyUpdate(KeyHolder, ProbeBodies)
    \/ FlakyDelete(KeyHolder)
    \/ FlakyImage(KeyHolder)
    \/ FlakyResolve

SpecFault == InitKeyed /\ [][NextFault]_vars

\* The server with its key configured, used by a client that reads records
\* and sends them back.
NextEcho ==
    \/ CreateRequest(KeyHolder, SeedBodies)
    \/ GetRequest(KeyHolder)
    \/ UpdateRequest(KeyHolder, EchoBodies)

SpecEcho == InitKeyed /\ [][NextEcho]_vars

\* The bodies of the requests that compare the two writing handlers: the
\* refused ones, and accepted ones that validation stores changed.
DecideBodies == Bodies \cup {JaneBlankOrg, JaneWithUrl}

\* The server with its key configured, receiving creates and updates only.
NextDecide ==
    \/ CreateRequest(KeyHolder, DecideBodies)
    \/ UpdateRequest(KeyHolder, DecideBodies)

SpecDecide == InitKeyed /\ [][NextDecide]_vars

\* The server with its key configured, used by clients that have the key
\* and send the payload bodies.
NextPayload == Requests(KeyHolder, PayloadBodies)

SpecPayload == InitKeyed /\ [][NextPayload]_vars

(***************************************************************************)
(* The in-memory server (server.js, first variant): the array qrCodes and  *)
(* the counter nextId, no authentication and no validation.                *)
(***************************************************************************)
\* parseInt(req.params.id) of the path segments of the model; 0 stands for
\* NaN, which is the id of no record.
MemParseInt(seg) == IF IsBigint(seg) THEN ParseBigint(seg) ELSE 0

\* qrCodes.findIndex(c => c.id === id), 1-based; 0 when there is none.
FindIndexById(codes, id) ==
    LET hits == {i \in DOMAIN codes : codes[i].id = id}
    IN  IF hits = {} THEN 0 ELSE CHOOSE i \in hits : \A j \in hits : i <= j

\* qrCodes.findIndex(c => c.shortId === shortId), 1-based; 0 when there is none.
FindIndexByShortId(codes, shortId) ==
    LET hits == {i \in DOMAIN codes : codes[i].shortId = shortId}
    IN  IF hits = {} THEN 0 ELSE CHOOSE i \in hits : \A j \in hits : i <= j

\* The headers of a request that getBaseUrl reads, with req.protocol: a
\* client on the machine itself, and one behind a proxy that ends TLS.
Http == <<"h", "t", "t", "p">>
Https == <<"h", "t", "t", "p", "s">>
Direct ==
    [forwardedProto |-> <<>>, protocol |-> Http,
     host |-> <<"l", "o", "c", "a", "l", "h", "o", "s", "t">>]
Proxied ==
    [forwardedProto |-> Https, protocol |-> Http, host |-> <<"q", "r", ".", "c", "o">>]

\* getBaseUrl(req)
getBaseUrl(h) ==
    IF BASE_URL # <<>> THEN BASE_URL
    ELSE (IF h.forwardedProto # <<>> THEN h.forwardedProto
          ELSE IF h.protocol # <<>> THEN h.protocol
          ELSE Https)
            \o <<":", "/", "/">> \o h.host

\* A variant of the url of a record that knows no custom short domain.
QrUrlOfBase(h, shortId) == getBaseUrl(h) \o <<"/", "q", "/">> \o <<shortId>>

\* The url a handler writes into the code of a record; the short id is one
\* token of it.
QrUrl(h, shortId) ==
    IF CUSTOM_SHORT_DOMAIN # <<>>
    THEN CUSTOM_SHORT_DOMAIN \o <<"/">> \o <<shortId>>
    ELSE getBaseUrl(h) \o <<"/", "q", "/">> \o <<shortId>>

\* A variant of the record a create builds that numbers it by its place in
\* the array.
NewCodeByLength(id, shortId, type, data) ==
    [id |-> Len(qrCodes) + 1, shortId |-> shortId, type |-> type, data |-> data,
     createdAt |-> now, updatedAt |-> now]

\* The record app.post('/api/qr') builds.
NewCode(id, shortId, type, data) ==
    [id |-> id, shortId |-> shortId, type |-> type, data |-> data,
     createdAt |-> now, updatedAt |-> now]

\* A variant of the record an update writes that keeps the old updatedAt.
UpdatedCodeUnstamped(code, type, data) == [code EXCEPT !.type = type, !.data = data]

\* The record app.put('/api/qr/:id') writes: {...old, type, data, updatedAt}.
UpdatedCode(code, type, data) ==
    [code EXCEPT !.type = type, !.data = data, !.updatedAt = now]

\* qrCodes.splice(index, 1)
Splice(codes, index) ==
    SubSeq(codes, 1, index - 1) \o SubSeq(codes, index + 1, Len(codes))

\* generateVCard(data): the lines joined by CRLF.
MemVCardLines(data) ==
    SelectSeq(VCardLines(data), LAMBDA line : line # <<>>)

generateVCard(data) == Join(MemVCardLines(data), <<"\r", "\n">>)

MemServe(r, codes, next) ==
    /\ res' = r
    /\ qrCodes' = codes
    /\ nextId' = next
    /\ UNCHANGED <<API_KEY, NODE_ENV, BASE_URL, CUSTOM_SHORT_DOMAIN, qr_codes, qr_codes_id_seq, now>>
    /\ UNCHANGED history
    /\ UNCHANGED call
    /\ UNCHANGED inflight
    /\ UNCHANGED functions

\* app.post('/api/qr'), with e what QRCode.toDataURL answers.
MemCreateRendering(h, body, shortId, e) ==
    LET req == Rendering([Request("create", "", "", "", body) EXCEPT !.headers = h], e)
        newCode == NewCode(nextId, shortId, body.type, body.data)
    IN  /\ nextId <= MaxId
        /\ IF RenderFailed(req)
           THEN MemServe([Answer(req, "POST /api/qr", 500, "Failed to create QR code")
                             EXCEPT !.shortId = shortId],
                         Append(qrCodes, newCode), nextId + 1)
           ELSE MemServe([Answer(req, "POST /api/qr", 200, "")
                             EXCEPT !.shortId = shortId, !.rows = {newCode},
                                    !.qrUrls = {<<shortId, QrUrl(h, shortId)>>}],
                         Append(qrCodes, newCode), nextId + 1)

\* app.post('/api/qr') when the image is rendered.
MemCreate(h, body, shortId) == MemCreateRendering(h, body, shortId, "")

\* app.get('/api/qr')
MemList(h) ==
    MemServe([Answer(Request("list", "", "", "", NoBody), "GET /api/qr", 200, "")
                 EXCEPT !.rows = Range(qrCodes), !.headers = h,
                        !.qrUrls = {<<code.shortId, QrUrl(h, code.shortId)>> :
                                       code \in Range(qrCodes)}],
             qrCodes, nextId)

\* app.get('/api/qr/:id')
MemGet(h, seg) ==
    LET req == [Request("get", "", "", seg, NoBody) EXCEPT !.headers = h]
        index == FindIndexById(qrCodes, MemParseInt(seg))
    IN  IF index = 0
        THEN MemServe(Answer(req, "GET /api/qr/:id", 404, "QR code not found"),
                      qrCodes, nextId)
        ELSE MemServe([Answer(req, "GET /api/qr/:id", 200, "")
                          EXCEPT !.rows = {qrCodes[index]},
                                 !.qrUrls = {<<qrCodes[index].shortId,
                                               QrUrl(h, qrCodes[index].shortId)>>}],
                      qrCodes, nextId)

\* app.put('/api/qr/:id')
MemUpdate(seg, body) ==
    LET req == Request("update", "", "", seg, body)
        codeIndex == FindIndexById(qrCodes, MemParseInt(seg))
    IN  IF codeIndex = 0
        THEN MemServe(Answer(req, "PUT /api/qr/:id", 404, "QR code not found"),
                      qrCodes, nextId)
        ELSE MemServe(Answer(req, "PUT /api/qr/:id", 200, "success"),
                      [qrCodes EXCEPT ![codeIndex] =
                          UpdatedCode(@, body.type, body.data)],
                      nextId)

\* app.delete('/api/qr/:id')
MemDelete(seg) ==
    LET req == Request("delete", "", "", seg, NoBody)
        codeIndex == FindIndexById(qrCodes, MemParseInt(seg))
    IN  IF codeIndex = 0
        THEN MemServe(Answer(req, "DELETE /api/qr/:id", 404, "QR code not found"),
                      qrCodes, nextId)
        ELSE MemServe(Answer(req, "DELETE /api/qr/:id", 200, "success"),
                      Splice(qrCodes, codeIndex), nextId)

\* app.get('/api/qr/:id/image')
MemImage(h, seg) ==
    LET req == [Request("image", "", "", seg, NoBody) EXCEPT !.headers = h]
        index == FindIndexById(qrCodes, MemParseInt(seg))
    IN  IF index = 0
        THEN MemServe(Answer(req, "GET /api/qr/:id/image", 404, "Not found"),
                      qrCodes, nextId)
        ELSE MemServe([Answer(req, "GET /api/qr/:id/image", 200, "image/png")
                          EXCEPT !.qrUrls = {<<qrCodes[index].shortId,
                                               QrUrl(h, qrCodes[index].shortId)>>}],
                      qrCodes, nextId)

\* handleQRRedirect, for GET /q/:shortId: a page that sends the browser on,
\* or no response at all for a record of another type.
handleQRRedirectAnswer(shortId) ==
    LET req == Request("resolve", "", "", shortId, NoBody)
        index == FindIndexByShortId(qrCodes, shortId)
    IN  IF index = 0
        THEN Answer(req, "GET /q/:shortId", 404, "QR code not found")
        ELSE IF qrCodes[index].type = "link"
        THEN [Answer(req, "GET /q/:shortId", 200, "text/html")
                 EXCEPT !.location = Get(qrCodes[index].data, "url").v]
        ELSE IF qrCodes[index].type = "vcard"
        THEN [Answer(req, "GET /q/:shortId", 200, "text/html")
                 EXCEPT !.location = <<"/", "d", "o", "w", "n", "l", "o", "a", "d", "/">>]
        ELSE Answer(req, "GET /q/:shortId", 0, "no response")

\* GET /q/:shortId served in one step.
handleQRRedirect(shortId) == MemServe(handleQRRedirectAnswer(shortId), qrCodes, nextId)

\* app.get('/download/:shortId')
MemDownload(shortId) ==
    LET req == Request("download", "", "", shortId, NoBody)
        index == FindIndexByShortId(qrCodes, shortId)
    IN  IF index = 0 \/ qrCodes[IF index = 0 THEN 1 ELSE index].type # "vcard"
        THEN MemServe(Answer(req, "GET /download/:shortId", 404, "Contact card not found"),
                      qrCodes, nextId)
        ELSE MemServe([Answer(req, "GET /download/:shortId", 200, "text/vcard")
                          EXCEPT !.text = generateVCard(qrCodes[index].data)],
                      qrCodes, nextId)

\* The bodies sent to the in-memory server.
MemBodies ==
    {LinkBody(UrlPlain), JaneDoe,
     [type |-> "page", data |-> Obj([f \in {"url"} |-> Str(UrlPlain)])]}

NextMem ==
    \/ \E body \in MemBodies, s \in ShortIds : MemCreate(Direct, body, s)
    \/ MemList(Direct)
    \/ \E id \in IdParams : MemGet(Direct, id)
    \/ \E id \in IdParams, body \in MemBodies : MemUpdate(id, body)
    \/ \E id \in IdParams : MemDelete(id)
    \/ \E id \in IdParams : MemImage(Direct, id)
    \/ \E s \in ShortIds \cup {"unknown"} : handleQRRedirect(s)
    \/ \E s \in ShortIds \cup {"unknown"} : MemDownload(s)

InitMem == Init /\ API_KEY = "" /\ NODE_ENV = "development"

SpecMem == InitMem /\ [][NextMem]_vars

\* The writes of either server while time passes: the authenticated server
\* is the one that runs with a key configured, the in-memory server knows
\* no key.
FrameBodies == {LinkBody(UrlPlain), JaneDoe}

NextFrame ==
    \/ API_KEY = "secret" /\ CreateRequest(KeyHolder, FrameBodies)
    \/ API_KEY = "secret" /\ UpdateRequest(KeyHolder, FrameBodies)
    \/ API_KEY = "secret" /\ DeleteRequest(KeyHolder)
    \/ API_KEY = "" /\ \E body \in MemBodies, s \in ShortIds : MemCreate(Direct, body, s)
    \/ API_KEY = "" /\ \E id \in IdParams, body \in MemBodies : MemUpdate(id, body)
    \/ API_KEY = "" /\ \E id \in IdParams : MemDelete(id)
    \/ Tick

SpecFrame == Init /\ [][NextFrame]_vars

\* The creates and deletes of either server when the store or the renderer
\* of the image may fail.
RenderCreate(credentials, bodies) ==
    /\ qr_codes_id_seq <= MaxId
    /\ API_KEY = "secret"
    /\ \E e \in StoreAnswers, g \in RenderAnswers, c \in credentials, body \in bodies,
          shortId \in ShortIds :
          Created(Authenticated(
                      Rendering(Meeting(Request("create", c[1], c[2], "", body), e), g),
                      PostQr(Rendering(Meeting(Request("create", c[1], c[2], "", body), e), g),
                             shortId)),
                  body, shortId)

MemRenderCreate ==
    /\ API_KEY = ""
    /\ \E g \in RenderAnswers, h \in {Direct, Proxied}, body \in MemBodies, s \in ShortIds :
          MemCreateRendering(h, body, s, g)

NextRender ==
    \/ RenderCreate(KeyHolder, ProbeBodies)
    \/ API_KEY = "secret" /\ DeleteRequest(KeyHolder)
    \/ MemRenderCreate
    \/ API_KEY = "" /\ \E id \in IdParams : MemDelete(id)

SpecRender == Init /\ [][NextRender]_vars

\* The public resolver of either server next to the writes that fill the
\* store, while time passes.
NextResolve ==
    \/ API_KEY = "secret" /\ CreateRequest(KeyHolder, FrameBodies)
    \/ API_KEY = "secret" /\ UpdateRequest(KeyHolder, FrameBodies)
    \/ API_KEY = "secret" /\ ResolveRequest
    \/ API_KEY = "" /\ \E body \in MemBodies, s \in ShortIds : MemCreate(Direct, body, s)
    \/ API_KEY = "" /\ \E id \in IdParams, body \in MemBodies : MemUpdate(id, body)
    \/ API_KEY = "" /\ \E s \in ShortIds \cup {"unknown"} : handleQRRedirect(s)
    \/ API_KEY = "" /\ \E s \in ShortIds \cup {"unknown"} : MemDownload(s)
    \/ Tick

SpecResolve == Init /\ [][NextResolve]_vars

-----------------------------------------------------------------------------
(***************************************************************************)
(* Update requests in flight at once.  The handler of part_000 runs up to  *)
(* its await of the update query, the store executes the query as one      *)
(* statement, and the handler resumes with the result; the handler of      *)
(* server.js has no await and runs to the end once it is started.          *)
(***************************************************************************)
\* The rest of the state while a handler of an update is under way.
Elsewhere ==
    <<API_KEY, NODE_ENV, BASE_URL, CUSTOM_SHORT_DOMAIN, qr_codes_id_seq, now,
      issued, deleted, cleared, nextId, api_qrCodes, redirect_qrCodes, arg, ret>>

\* PUT /api/qr/:id arrives at part_000: the middleware and the validation
\* answer at once, or the handler sends its query and awaits it.
UpdateArrives(bodies) ==
    /\ API_KEY = "secret"
    /\ Cardinality(inflight) < MaxInFlight
    /\ \E c \in KeyHolder, id \in IdParams, body \in bodies :
          LET req == Request("update", c[1], c[2], id, body)
          IN  /\ validateQRCode(body)
              /\ ValidateBody(body).ok
              /\ inflight' = inflight \cup {[req |-> Queried(req), stage |-> "sent"]}
    /\ UNCHANGED <<qr_codes, qrCodes, res, fresh>>
    /\ UNCHANGED Elsewhere

\* The store executes the query of a request in flight.
StoreUpdates ==
    /\ \E q \in inflight :
          /\ q.stage = "sent"
          /\ LET table == UpdateTable(qr_codes, q.req.param, q.req.body.type,
                                      ValidateBody(q.req.body).value)
             IN  /\ qr_codes' = table
                 /\ inflight' = (inflight \ {q})
                       \cup {[req |-> [q.req EXCEPT !.rows = EqId(table, q.req.param)],
                              stage |-> "executed"]}
          /\ fresh' = [s \in ShortIds |->
                          IF s \in Addressed(q.req.param) THEN NoBody ELSE fresh[s]]
    /\ UNCHANGED <<qrCodes, res>>
    /\ UNCHANGED Elsewhere

\* The handler resumes with the result of its query and answers.
UpdateAnswers ==
    /\ \E q \in inflight :
          /\ q.stage = "executed"
          /\ res' = IF q.req.rows = {}
                    THEN Answer(q.req, "PUT /api/qr/:id", 500, "Failed to update QR code")
                    ELSE Answer(q.req, "PUT /api/qr/:id", 200, "")
          /\ inflight' = inflight \ {q}
    /\ UNCHANGED <<qr_codes, qrCodes, fresh>>
    /\ UNCHANGED Elsewhere

\* PUT /api/qr/:id arrives at server.js while other requests wait their turn.
MemUpdateArrives ==
    /\ API_KEY = ""
    /\ Cardinality(inflight) < MaxInFlight
    /\ \E id \in IdParams, body \in FrameBodies :
          inflight' = inflight \cup {[req |-> Request("update", "", "", id, body),
                                      stage |-> "received"]}
    /\ UNCHANGED <<qr_codes, qrCodes, res, fresh>>
    /\ UNCHANGED Elsewhere

\* The handler of server.js runs from its first line to its answer.
MemUpdateRuns ==
    /\ \E q \in inflight :
          LET codeIndex == FindIndexById(qrCodes, MemParseInt(q.req.param))
          IN  /\ q.stage = "received"
              /\ inflight' = inflight \ {q}
              /\ IF codeIndex = 0
                 THEN /\ res' = Answer(q.req, "PUT /api/qr/:id", 404, "QR code not found")
                      /\ qrCodes' = qrCodes
                 ELSE /\ res' = Answer(q.req, "PUT /api/qr/:id", 200, "success")
                      /\ qrCodes' = [qrCodes EXCEPT ![codeIndex] =
                                        UpdatedCode(@, q.req.body.type, q.req.body.data)]
    /\ UNCHANGED <<qr_codes, fresh>>
    /\ UNCHANGED Elsewhere

\* Records are created and updates of either server overlap.
NextOverlap ==
    \/ API_KEY = "secret" /\ CreateRequest(KeyHolder, FrameBodies)
    \/ UpdateArrives(FrameBodies)
    \/ StoreUpdates
    \/ UpdateAnswers
    \/ API_KEY = "" /\ \E body \in FrameBodies, s \in ShortIds : MemCreate(Direct, body, s)
    \/ MemUpdateArrives
    \/ MemUpdateRuns

\* Either server started in production.
InitOverlap == Init /\ NODE_ENV = "production"

SpecOverlap == InitOverlap /\ [][NextOverlap]_vars

(***************************************************************************)
(* Public requests of the in-memory server from their arrival to their     *)
(* response.  Express calls the handler of a request that has arrived; the *)
(* handler runs to its end, and the request stays open until a response    *)
(* has been sent for it.                                                   *)
(***************************************************************************)
\* Whether a resolve request for shortId is open.
Open(shortId) == \E q \in inflight : q.req.op = "resolve" /\ q.req.param = shortId

\* GET /q/:shortId arrives.
ResolveArrives ==
    /\ API_KEY = ""
    /\ Cardinality(inflight) < MaxInFlight
    /\ \E s \in ShortIds \cup {"unknown"} :
          /\ ~Open(s)
          /\ inflight' = inflight \cup {[req |-> Request("resolve", "", "", s, NoBody),
                                          stage |-> "received"]}
    /\ UNCHANGED <<qr_codes, qrCodes, res, fresh>>
    /\ UNCHANGED Elsewhere

\* handleQRRedirect runs from its first line to its last: the request is
\* closed by the response it sends, and stays open when it sends none.
ResolveRuns ==
    /\ \E q \in inflight :
          /\ q.req.op = "resolve" /\ q.stage = "received"
          /\ res' = handleQRRedirectAnswer(q.req.param)
          /\ inflight' = IF handleQRRedirectAnswer(q.req.param).status # 0
                         THEN inflight \ {q}
                         ELSE (inflight \ {q}) \cup {[q EXCEPT !.stage = "returned"]}
    /\ UNCHANGED <<qr_codes, qrCodes, fresh>>
    /\ UNCHANGED Elsewhere

NextAnswer ==
    \/ \E body \in MemBodies, s \in ShortIds : MemCreate(Direct, body, s)
    \/ \E id \in IdParams, body \in MemBodies : MemUpdate(id, body)
    \/ ResolveArrives
    \/ ResolveRuns

\* Express runs the handler of every request that has arrived.
SpecAnswer == InitMem /\ [][NextAnswer]_vars /\ WF_vars(ResolveRuns)

-----------------------------------------------------------------------------
(***************************************************************************)
(* The hardened in-memory server (part_001): the array qrCodes and the     *)
(* counter nextId behind validation, with short ids and paths spelled out  *)
(* as strings of characters.                                               *)
(***************************************************************************)
\* The tokens nanoid(8) may return: eight characters of A-Za-z0-9_-.
HardShortIds ==
    {<<"V", "1", "S", "t", "G", "X", "R", "8">>,
     <<"a", "p", "i", "K", "_", "x", "-", "7">>}

\* The :shortId of a public request: a token in use or not, and texts of
\* other lengths.
Unseen == <<"3", "h", "7", "K", "q", "0", "Z", "p">>
HardParams ==
    HardShortIds \cup {Unseen, <<"x">>, <<"3", "h", "7", "K", "q", "0", "Z", "p", "1">>}

\* The first thirteen patterns are the dangerousPatterns of part_001.
HardDangerousPatterns == SubSeq(dangerousPatterns, 1, 13)

HardIsLocalHost(h) ==
    \/ h = <<"l", "o", "c", "a", "l", "h", "o", "s", "t">>
    \/ startsWith(h, <<"1", "2", "7", ".">>)
    \/ startsWith(h, <<"1", "9", "2", ".", "1", "6", "8", ".">>)
    \/ startsWith(h, <<"1", "0", ".">>)
    \/ startsWith(h, <<"1", "7", "2", ".">>)

\* validateUrl(url) of part_001
HardValidateUrl(url) ==
    IF ~Truthy(url) \/ url.t # "string"
    THEN Throw("URL is required and must be a string")
    ELSE IF \E i \in DOMAIN HardDangerousPatterns :
               TestPattern(HardDangerousPatterns[i], trim(url.v))
    THEN Throw("Dangerous URL scheme not allowed")
    ELSE IF ~isURL(url.v)
    THEN Throw("Invalid URL format - only HTTP and HTTPS URLs are allowed")
    ELSE IF HardIsLocalHost(hostname(url.v))
    THEN Throw("Local/private URLs are not allowed")
    ELSE Ok(Str(trim(url.v)))

\* validateVCardData(data) of part_001; a truthy field that is no string
\* makes validator throw a TypeError.
HardValidateVCardData(data) ==
    LET email == Get(data, "email")
        website == Get(data, "website")
        kept == {allowed[i] : i \in {j \in DOMAIN allowed : Truthy(Get(data, allowed[j]))}}
    IN  IF \E i \in DOMAIN required : RequiredMissing(data, required[i])
        THEN Throw("field is required")
        ELSE IF Truthy(email) /\ (email.t # "string" \/ ~isEmail(email.v))
        THEN Throw("Invalid email format")
        ELSE IF Truthy(website) /\ ~HardValidateUrl(website).ok
        THEN Throw("Invalid website URL")
        ELSE IF \E f \in kept : Get(data, f).t # "string"
        THEN Throw("TypeError")
        ELSE Ok(Obj([f \in kept |-> Str(escape(trim(Get(data, f).v)))]))

\* validateQRType(type)
validateQRType(type) ==
    IF type = "" THEN Throw("Type is required")
    ELSE IF type \notin {"link", "vcard"} THEN Throw("Invalid QR code type")
    ELSE Ok(type)

\* The validation of the create and update handlers: validatedData, or the
\* error caught and answered with 400.
HardValidateData(body) ==
    IF ~validateQRType(body.type).ok THEN validateQRType(body.type)
    ELSE IF body.type = "link"
    THEN IF HardValidateUrl(Get(body.data, "url")).ok
         THEN Ok(Obj([f \in {"url"} |-> HardValidateUrl(Get(body.data, "url")).value]))
         ELSE HardValidateUrl(Get(body.data, "url"))
    ELSE HardValidateVCardData(body.data)

\* The bodies sent to the hardened server, and their validation computed
\* once.
HardBodies == {LinkBody(UrlPlain), JaneDoe, LinkBody(UrlPrivate)}

HardValidated == [body \in HardBodies |-> HardValidateData(body)]

\* escapeHtml(text)
EscapeHtmlChar(c) ==
    CASE c = "&" -> <<"&", "a", "m", "p", ";">>
      [] c = "<" -> <<"&", "l", "t", ";">>
      [] c = ">" -> <<"&", "g", "t", ";">>
      [] c = "\"" -> <<"&", "q", "u", "o", "t", ";">>
      [] c = "'" -> <<"&", "#", "x", "2", "7", ";">>
      [] c = "/" -> <<"&", "#", "x", "2", "F", ";">>
      [] OTHER -> <<c>>

escapeHtml(text) == Flatten([i \in DOMAIN text |-> EscapeHtmlChar(text[i])])

\* The url a handler of part_001 writes into the code of a record.
HardQrUrl(h, shortId) ==
    IF CUSTOM_SHORT_DOMAIN # <<>>
    THEN CUSTOM_SHORT_DOMAIN \o <<"/">> \o shortId
    ELSE getBaseUrl(h) \o <<"/", "q", "/">> \o shortId

\* parseInt(req.params.id) is NaN or not positive.
HardInvalidId(seg) == ~IsBigint(seg)

\* app.post('/api/qr')
HardCreate(h, body, shortId) ==
    LET req == [Request("create", "", "", "", body) EXCEPT !.headers = h]
        newCode == NewCode(nextId, shortId, body.type, HardValidated[body].value)
    IN  /\ nextId <= MaxId
        /\ IF ~HardValidated[body].ok
           THEN MemServe(Answer(req, "POST /api/qr", 400, HardValidated[body].error),
                         qrCodes, nextId)
           ELSE MemServe([Answer(req, "POST /api/qr", 200, "")
                             EXCEPT !.shortId = shortId, !.rows = {newCode},
                                    !.qrUrls = {<<shortId, HardQrUrl(h, shortId)>>}],
                         Append(qrCodes, newCode), nextId + 1)

\* app.get('/api/qr/:id')
HardGet(h, seg) ==
    LET req == [Request("get", "", "", seg, NoBody) EXCEPT !.headers = h]
        index == FindIndexById(qrCodes, MemParseInt(seg))
    IN  IF HardInvalidId(seg)
        THEN MemServe(Answer(req, "GET /api/qr/:id", 400, "Invalid QR code ID"),
                      qrCodes, nextId)
        ELSE IF index = 0
        THEN MemServe(Answer(req, "GET /api/qr/:id", 404, "QR code not found"),
                      qrCodes, nextId)
        ELSE MemServe([Answer(req, "GET /api/qr/:id", 200, "")
                          EXCEPT !.rows = {qrCodes[index]},
                                 !.qrUrls = {<<qrCodes[index].shortId,
                                               HardQrUrl(h, qrCodes[index].shortId)>>}],
                      qrCodes, nextId)

\* app.put('/api/qr/:id')
HardUpdate(seg, body) ==
    LET req == Request("update", "", "", seg, body)
        codeIndex == FindIndexById(qrCodes, MemParseInt(seg))
    IN  IF HardInvalidId(seg)
        THEN MemServe(Answer(req, "PUT /api/qr/:id", 400, "Invalid QR code ID"),
                      qrCodes, nextId)
        ELSE IF ~HardValidated[body].ok
        THEN MemServe(Answer(req, "PUT /api/qr/:id", 400, HardValidated[body].error),
                      qrCodes, nextId)
        ELSE IF codeIndex = 0
        THEN MemServe(Answer(req, "PUT /api/qr/:id", 404, "QR code not found"),
                      qrCodes, nextId)
        ELSE MemServe(Answer(req, "PUT /api/qr/:id", 200, "success"),
                      [qrCodes EXCEPT ![codeIndex] =
                          [@ EXCEPT !.type = body.type,
                                    !.data = HardValidated[body].value,
                                    !.updatedAt = now]],
                      nextId)

\* app.delete('/api/qr/:id')
HardDelete(seg) ==
    LET req == Request("delete", "", "", seg, NoBody)
        codeIndex == FindIndexById(qrCodes, MemParseInt(seg))
    IN  IF HardInvalidId(seg)
        THEN MemServe(Answer(req, "DELETE /api/qr/:id", 400, "Invalid QR code ID"),
                      qrCodes, nextId)
        ELSE IF codeIndex = 0
        THEN MemServe(Answer(req, "DELETE /api/qr/:id", 404, "QR code not found"),
                      qrCodes, nextId)
        ELSE MemServe(Answer(req, "DELETE /api/qr/:id", 200, "success"),
                      Splice(qrCodes, codeIndex), nextId)

\* handleQRRedirect of part_001: a page whose script sends the browser to
\* escapeHtml(url), or on to /download/ for a contact card.
HardRedirect(req) ==
    LET index == FindIndexByShortId(qrCodes, req.shortId)
    IN  IF Len(req.shortId) # 8
        THEN Answer(req, "handleQRRedirect", 400, "Invalid QR code")
        ELSE IF index = 0
        THEN Answer(req, "handleQRRedirect", 404, "QR code not found")
        ELSE IF qrCodes[index].type = "link"
        THEN [Answer(req, "handleQRRedirect", 200, "text/html")
                 EXCEPT !.rows = {qrCodes[index]},
                        !.location = escapeHtml(Get(qrCodes[index].data, "url").v)]
        ELSE [Answer(req, "handleQRRedirect", 200, "text/html")
                 EXCEPT !.rows = {qrCodes[index]},
                        !.location = <<"/", "d", "o", "w", "n", "l", "o", "a", "d", "/">>
                                        \o escapeHtml(req.shortId)]

\* app.get('/download/:shortId') of part_001
HardDownload(req) ==
    LET index == FindIndexByShortId(qrCodes, req.shortId)
    IN  IF Len(req.shortId) # 8
        THEN Answer(req, "GET /download/:shortId", 400, "Invalid QR code")
        ELSE IF index = 0 \/ qrCodes[IF index = 0 THEN 1 ELSE index].type # "vcard"
        THEN Answer(req, "GET /download/:shortId", 404, "Contact card not found")
        ELSE [Answer(req, "GET /download/:shortId", 200, "text/vcard")
                 EXCEPT !.rows = {qrCodes[index]},
                        !.text = generateVCard(qrCodes[index].data)]

\* The segments of a request path: "/q/abc" has the segments q and abc; a
\* trailing slash adds none.
Segments(path) ==
    LET parts == Tail(split(path, <<"/">>))
    IN  IF parts # <<>> /\ parts[Len(parts)] = <<>>
        THEN SubSeq(parts, 1, Len(parts) - 1) ELSE parts

\* The path of an absolute url.
Pathname(url) ==
    LET rest == After(url, <<":", "/", "/">>)
    IN  IF includes(rest, <<"/">>)
        THEN SubSeq(rest, indexOf(rest, <<"/">>), Len(rest)) ELSE <<"/">>

\* The guard of app.get('/:shortId'): the paths it hands on with next().
SkipsResolver(shortId) ==
    \/ startsWith(shortId, <<"a", "p", "i">>)
    \/ includes(shortId, <<".">>)
    \/ shortId = <<"h", "e", "a", "l", "t", "h">>

\* A variant of the guard that hands on no path.
SkipsNothing(shortId) == FALSE

\* A GET of a public path, as the first route that takes it answers it; what
\* no route takes goes to the https redirect in production and else to the
\* 404 of Express.
HardDispatch(h, path) ==
    LET segs == Segments(path)
        req == [Request("visit", "", "", path, NoBody) EXCEPT !.headers = h]
        named == [req EXCEPT !.shortId = segs[Len(segs)]]
    IN  IF Len(segs) = 1 /\ toLowerCase(segs[1]) = <<"h", "e", "a", "l", "t", "h">>
        THEN Answer(req, "GET /health", 200, "ok")
        ELSE IF Len(segs) = 2 /\ toLowerCase(segs[1]) = <<"q">> /\ segs[2] # <<>>
        THEN HardRedirect(named)
        ELSE IF Len(segs) = 1 /\ segs[1] # <<>> /\ ~SkipsResolver(segs[1])
        THEN HardRedirect(named)
        ELSE IF /\ Len(segs) = 2 /\ segs[2] # <<>>
                /\ toLowerCase(segs[1]) = <<"d", "o", "w", "n", "l", "o", "a", "d">>
        THEN HardDownload(named)
        ELSE IF NODE_ENV = "production" /\ h.forwardedProto # Https
        THEN [Answer(req, "https redirect", 302, "redirect")
                 EXCEPT !.location = Https \o <<":", "/", "/">> \o h.host \o path]
        ELSE Answer(req, "none", 404, "Cannot GET")

\* The public paths the model visits.
HardPaths ==
    UNION {{<<"/", "q", "/">> \o s, <<"/">> \o s,
            <<"/", "d", "o", "w", "n", "l", "o", "a", "d", "/">> \o s} : s \in HardParams}
      \cup {<<"/", "h", "e", "a", "l", "t", "h">>}

HardVisit(h, path) ==
    /\ path \in HardPaths
    /\ MemServe(HardDispatch(h, path), qrCodes, nextId)

\* The origins the process may be configured with.
Origins == {<<>>, <<"h", "t", "t", "p", "s", ":", "/", "/", "q", "r", ".", "c", "o">>}
ShortDomains == {<<>>, <<"h", "t", "t", "p", "s", ":", "/", "/", "s", ".", "c", "o">>}

\* The process of part_001 has started under some configuration.
InitHard ==
    /\ API_KEY = ""
    /\ NODE_ENV \in Environments
    /\ BASE_URL \in Origins
    /\ CUSTOM_SHORT_DOMAIN \in ShortDomains
    /\ Started
    /\ arg = NoCall
    /\ ret = Pending

NextHard ==
    \/ \E h \in {Direct, Proxied}, body \in HardBodies, s \in HardShortIds :
          HardCreate(h, body, s)
    \/ \E h \in {Direct, Proxied}, id \in IdParams : HardGet(h, id)
    \/ \E id \in IdParams, body \in HardBodies : HardUpdate(id, body)
    \/ \E id \in IdParams : HardDelete(id)
    \/ \E h \in {Direct, Proxied}, path \in HardPaths : HardVisit(h, path)

SpecHard == InitHard /\ [][NextHard]_vars

\* The in-memory server under every configuration of its urls, asked by
\* clients on the machine and behind a proxy for what reports the url of a
\* record.
InitOrigin ==
    /\ API_KEY = ""
    /\ NODE_ENV = "development"
    /\ BASE_URL \in Origins
    /\ CUSTOM_SHORT_DOMAIN \in ShortDomains
    /\ Started
    /\ arg = NoCall
    /\ ret = Pending

NextOrigin ==
    \/ \E h \in {Direct, Proxied}, body \in FrameBodies, s \in ShortIds :
          MemCreate(h, body, s)
    \/ \E h \in {Direct, Proxied} : MemList(h)
    \/ \E h \in {Direct, Proxied}, id \in IdParams : MemGet(h, id)
    \/ \E h \in {Direct, Proxied}, id \in IdParams : MemImage(h, id)

SpecOrigin == InitOrigin /\ [][NextOrigin]_vars

(***************************************************************************)
(* The Netlify functions: the API function (part_006) and the redirect     *)
(* function (part_005).  Each is a module with an array qrCodes of its     *)
(* own.  The path of an event is the sequence of the texts between its     *)
(* slashes.                                                                *)
(***************************************************************************)
\* path.split('/').filter(Boolean), given the result of the split.
PathSegments(path) == SelectSeq(path, LAMBDA seg : seg # "")

\* pathSegments[i] of JavaScript; "" stands for undefined.
SegmentAt(pathSegments, i) ==
    IF i + 1 \in DOMAIN pathSegments THEN pathSegments[i + 1] ELSE ""

\* The url the API function reports for a short id.
FnQrUrl(host, shortId) ==
    (IF host # <<>>
     THEN <<"h", "t", "t", "p", "s", ":", "/", "/">> \o host
     ELSE <<"h", "t", "t", "p", "s", ":", "/", "/", "y", "o", "u", "r", "d", "o", "m",
            "a", "i", "n", ".", "n", "e", "t", "l", "i", "f", "y", ".", "a", "p", "p">>)
        \o <<"/", "q", "/">> \o <<shortId>>

\* An event on its way through a function.
FnRequest(op, event) ==
    [Request(op, "", "", SegmentAt(PathSegments(event.path), 2), event.body)
        EXCEPT !.headers = [NoHeaders EXCEPT !.host = event.host]]

\* The record the API function builds: its id is qrCodes.length + 1.
FnNewCode(codes, shortId, type, data) == NewCode(Len(codes) + 1, shortId, type, data)

\* The handler of part_006 on an event, with shortId the token nanoid(8)
\* returns: the response and the array it leaves.  A body that is not JSON
\* (NoBody) makes JSON.parse throw.
ApiHandler(event, shortId) ==
    LET pathSegments == PathSegments(event.path)
        id == MemParseInt(SegmentAt(pathSegments, 2))
        index == FindIndexById(api_qrCodes, id)
        at == IF index = 0 THEN 1 ELSE index
    IN  IF event.httpMethod = "OPTIONS"
        THEN <<Answer(FnRequest("options", event), "api", 200, ""), api_qrCodes>>
        ELSE IF SegmentAt(pathSegments, 1) # "qr"
        THEN <<Answer(FnRequest("none", event), "api", 404, "Not found"), api_qrCodes>>
        ELSE IF event.httpMethod = "GET" /\ SegmentAt(pathSegments, 2) # ""
        THEN IF index = 0
             THEN <<Answer(FnRequest("get", event), "api", 404, "QR code not found"),
                    api_qrCodes>>
             ELSE <<[Answer(FnRequest("get", event), "api", 200, "")
                        EXCEPT !.rows = {api_qrCodes[at]},
                               !.qrUrls = {<<api_qrCodes[at].shortId,
                                             FnQrUrl(event.host, api_qrCodes[at].shortId)>>}],
                    api_qrCodes>>
        ELSE IF event.httpMethod = "GET"
        THEN <<[Answer(FnRequest("list", event), "api", 200, "")
                   EXCEPT !.rows = Range(api_qrCodes),
                          !.qrUrls = {<<code.shortId, FnQrUrl(event.host, code.shortId)>> :
                                         code \in Range(api_qrCodes)}],
               api_qrCodes>>
        ELSE IF event.httpMethod = "POST"
        THEN IF event.body = NoBody
             THEN <<Answer(FnRequest("create", event), "api", 500, "Unexpected token"),
                    api_qrCodes>>
             ELSE <<[Answer(FnRequest("create", event), "api", 200, "")
                        EXCEPT !.shortId = shortId,
                               !.rows = {FnNewCode(api_qrCodes, shortId, event.body.type,
                                                   event.body.data)},
                               !.qrUrls = {<<shortId, FnQrUrl(event.host, shortId)>>}],
                    Append(api_qrCodes,
                           FnNewCode(api_qrCodes, shortId, event.body.type,
                                     event.body.data))>>
        ELSE IF event.httpMethod = "PUT"
        THEN IF event.body = NoBody
             THEN <<Answer(FnRequest("update", event), "api", 500, "Unexpected token"),
                    api_qrCodes>>
             ELSE IF index = 0
             THEN <<Answer(FnRequest("update", event), "api", 404, "QR code not found"),
                    api_qrCodes>>
             ELSE <<Answer(FnRequest("update", event), "api", 200, "success"),
                    [api_qrCodes EXCEPT ![at] =
                        UpdatedCode(@, event.body.type, event.body.data)]>>
        ELSE IF event.httpMethod = "DELETE"
        THEN IF index = 0
             THEN <<Answer(FnRequest("delete", event), "api", 404, "QR code not found"),
                    api_qrCodes>>
             ELSE <<Answer(FnRequest("delete", event), "api", 200, "success"),
                    Splice(api_qrCodes, at)>>
        ELSE <<Answer(FnRequest("none", event), "api", 404, "Not found"), api_qrCodes>>

\* The handler of part_005 on an event: the response.
RedirectHandler(event) ==
    LET req == [FnRequest("resolve", event)
                   EXCEPT !.param = SegmentAt(PathSegments(event.path), 1)]
        index == FindIndexByShortId(redirect_qrCodes, req.param)
        at == IF index = 0 THEN 1 ELSE index
    IN  IF event.httpMethod # "GET"
        THEN Answer(req, "redirect", 405, "Method not allowed")
        ELSE IF index = 0
        THEN Answer(req, "redirect", 404, "QR code not found")
        ELSE IF redirect_qrCodes[at].type = "link"
        THEN [Answer(req, "redirect", 302, "redirect")
                 EXCEPT !.location = Get(redirect_qrCodes[at].data, "url").v]
        ELSE IF redirect_qrCodes[at].type = "vcard"
        THEN [Answer(req, "redirect", 200, "text/vcard")
                 EXCEPT !.text = generateVCard(redirect_qrCodes[at].data),
                        !.filename = VCardField(redirect_qrCodes[at].data, "firstName")
                                        \o <<"_">>
                                        \o VCardField(redirect_qrCodes[at].data, "lastName")
                                        \o <<".", "v", "c", "f">>]
        ELSE Answer(req, "redirect", 404, "Invalid QR code type")

\* Netlify invokes the API function.
ApiInvoked(event, shortId) ==
    /\ Len(ApiHandler(event, shortId)[2]) <= MaxId
    /\ res' = ApiHandler(event, shortId)[1]
    /\ api_qrCodes' = ApiHandler(event, shortId)[2]
    /\ UNCHANGED <<API_KEY, NODE_ENV, BASE_URL, CUSTOM_SHORT_DOMAIN, qr_codes,
                   qr_codes_id_seq, now, qrCodes, nextId, redirect_qrCodes, inflight>>
    /\ UNCHANGED history
    /\ UNCHANGED call

\* Netlify invokes the redirect function.
RedirectInvoked(event) ==
    /\ res' = RedirectHandler(event)
    /\ UNCHANGED <<API_KEY, NODE_ENV, BASE_URL, CUSTOM_SHORT_DOMAIN, qr_codes,
                   qr_codes_id_seq, now, qrCodes, nextId, inflight>>
    /\ UNCHANGED functions
    /\ UNCHANGED history
    /\ UNCHANGED call

\* The events of the model: the methods, the paths and the bodies.
FnHost == <<"q", "r", ".", "c", "o">>
ApiEvents ==
    [httpMethod : {"GET", "POST", "PUT", "DELETE", "OPTIONS", "PATCH"},
     path : {<<"", "api", "qr">>, <<"", "api", "qr", "1">>, <<"", "api", "qr", "2">>,
             <<"", "api", "qr", "x">>, <<"", "api", "health">>},
     host : {FnHost},
     body : {LinkBody(UrlPlain), JaneDoe, NoBody}]
RedirectEvents ==
    [httpMethod : {"GET", "POST"},
     path : {<<"", "q", s>> : s \in ShortIds} \cup {<<"", "q", "unknown">>, <<"", "q">>},
     host : {FnHost},
     body : {NoBody}]

NextFn ==
    \/ \E event \in ApiEvents, shortId \in ShortIds : ApiInvoked(event, shortId)
    \/ \E event \in RedirectEvents : RedirectInvoked(event)

SpecFn == InitMem /\ [][NextFn]_vars



-----------------------------------------------------------------------------
(***************************************************************************)
(* The validators called on their own (part_000): arg is the call, ret its *)
(* result.                                                                 *)
(***************************************************************************)

\* The schemes of the urls validateUrl is called with: those of
\* dangerousPatterns, some of them in another letter case, http and https,
\* and schemes that are on no list.
UrlSchemes ==
    {<<"j", "a", "v", "a", "s", "c", "r", "i", "p", "t">>,
     <<"d", "a", "t", "a">>,
     <<"v", "b", "s", "c", "r", "i", "p", "t">>,
     <<"f", "i", "l", "e">>,
     <<"f", "t", "p">>,
     <<"m", "a", "i", "l", "t", "o">>,
     <<"t", "e", "l">>,
     <<"s", "m", "s">>,
     <<"c", "h", "r", "o", "m", "e">>,
     <<"c", "h", "r", "o", "m", "e", "-", "e", "x", "t", "e", "n", "s", "i", "o", "n">>,
     <<"m", "o", "z", "-", "e", "x", "t", "e", "n", "s", "i", "o", "n">>,
     <<"a", "b", "o", "u", "t">>,
     <<"b", "l", "o", "b">>,
     <<"w", "s">>,
     <<"w", "s", "s">>,
     <<"g", "o", "p", "h", "e", "r">>,
     <<"l", "d", "a", "p">>,
     <<"l", "d", "a", "p", "s">>,
     <<"J", "a", "v", "a", "S", "c", "r", "i", "p", "t">>,
     <<"D", "A", "T", "A">>,
     <<"F", "t", "p">>,
     <<"W", "S", "S">>,
     <<"C", "h", "r", "o", "m", "e", "-", "E", "x", "t", "e", "n", "s", "i", "o", "n">>,
     <<"h", "t", "t", "p">>,
     <<"h", "t", "t", "p", "s">>,
     <<"H", "T", "T", "P">>,
     <<"H", "t", "t", "p", "s">>,
     <<"f", "o", "o">>,
     <<"h", "t", "t", "p", "x">>}

\* The whitespace before the scheme, and what follows its colon.
UrlPads == {<<>>, <<" ">>, <<"\t", " ">>}
UrlTails == {<<"/", "/", "a", ".", "c", "o">>, <<"x">>}

UrlInputs ==
    {pad \o scheme \o <<":">> \o tail :
        pad \in UrlPads, scheme \in UrlSchemes, tail \in UrlTails}

InitValidateUrl ==
    /\ Boot
    /\ API_KEY = "secret"
    /\ arg \in {[fn |-> "validateUrl", value |-> Str(url)] : url \in UrlInputs}
    /\ ret = Pending

\* validateUrl(url) returns or throws.
CallValidateUrl ==
    /\ arg.fn = "validateUrl"
    /\ ret = Pending
    /\ ret' = validateUrl(NODE_ENV, arg.value)
    /\ UNCHANGED <<API_KEY, NODE_ENV, BASE_URL, CUSTOM_SHORT_DOMAIN, qr_codes, qr_codes_id_seq, now, res, qrCodes, nextId, inflight, arg>>
    /\ UNCHANGED functions
    /\ UNCHANGED history

SpecValidateUrl == InitValidateUrl /\ [][CallValidateUrl]_vars

\* The values validateVCardData is called with, field by field; undefined
\* stands for a field the payload does not have.
NameValues == {undefined, Num, Str(<<>>), Str(<<" ", "\t">>), Str(Jane), Str(<<" ">> \o Doe)}

EmailValues == {undefined, Str(JaneMail), Str(<<"j", "a", "n", "e">>)}

\* Organizations around the length limit and with the characters that
\* validator.escape replaces.
Letters(n) == [i \in 1..n |-> "a"]

OrganizationValues ==
    {undefined,
     Str(Letters(MaxFieldLength)),
     Str(Letters(MaxFieldLength + 1)),
     Str(<<" ">> \o Letters(MaxFieldLength) \o <<" ">>),
     Str(Letters(MaxFieldLength - 1) \o <<"<">>),
     Str(<<"A", "&", "B", " ", "<", "i", ">", "\"", "'", "/", "\\", Backtick>>)}

\* A field that validateVCardData does not recognize.
NicknameValues == {undefined, Str(<<"<", "b", ">">>)}

CardFields == {"firstName", "lastName", "email", "organization", "nickname"}

Card(firstName, lastName, email, organization, nickname) ==
    LET value == [f \in CardFields |->
                    CASE f = "firstName" -> firstName
                      [] f = "lastName" -> lastName
                      [] f = "email" -> email
                      [] f = "organization" -> organization
                      [] OTHER -> nickname]
    IN  Obj([f \in {g \in CardFields : value[g] # undefined} |-> value[f]])

CardInputs ==
    {Card(firstName, lastName, email, organization, nickname) :
        firstName \in NameValues, lastName \in NameValues, email \in EmailValues,
        organization \in OrganizationValues, nickname \in NicknameValues}

InitValidateVCardData ==
    /\ Boot
    /\ API_KEY = "secret"
    /\ arg \in {[fn |-> "validateVCardData", value |-> data] : data \in CardInputs}
    /\ ret = Pending

\* validateVCardData(data) returns or throws.
CallValidateVCardData ==
    /\ arg.fn = "validateVCardData"
    /\ ret = Pending
    /\ ret' = validateVCardData(NODE_ENV, arg.value)
    /\ UNCHANGED <<API_KEY, NODE_ENV, BASE_URL, CUSTOM_SHORT_DOMAIN, qr_codes, qr_codes_id_seq, now, res, qrCodes, nextId, inflight, arg>>
    /\ UNCHANGED functions
    /\ UNCHANGED history

SpecValidateVCardData == InitValidateVCardData /\ [][CallValidateVCardData]_vars

-----------------------------------------------------------------------------
(* Properties of the authenticated server.                                  *)

ManagementOps == {"list", "get", "create", "update", "delete", "image"}

\* The url a link record under short id s was created with, while the record
\* has been neither updated nor deleted since.
CreatedUrl(s) == Get(fresh[s].data, "url").v

IsFreshLink(s) == s \in DOMAIN fresh /\ fresh[s] # NoBody /\ fresh[s].type = "link"

\* The characters a URL is written in; "%" only where it starts an escape.
UrlPunctuation ==
    {"-", ".", "_", "~", ":", "/", "?", "#", "[", "]", "@", "!", "$", "&", "'",
     "(", ")", "*", "+", ",", ";", "="}

IsUrlText(s) ==
    \A i \in DOMAIN s :
        \/ IsLetter(s[i]) \/ IsDigit(s[i]) \/ s[i] \in UrlPunctuation
        \/ s[i] = "%" /\ i + 2 <= Len(s) /\ IsHexDigit(s[i + 1]) /\ IsHexDigit(s[i + 2])

\* C1 as stated: resolving the short id of a link record that was created
\* with the accepted url U, and not updated or deleted since, answers with a
\* redirect whose target is exactly U.
C1_RedirectExactlyU ==
    (res.op = "resolve" /\ IsFreshLink(res.param))
        => (res.status = 302 /\ res.location = CreatedUrl(res.param))

\* C1 amended: resolving the short id of a link record that was created with
\* the accepted url U, and not updated or deleted since, answers with a
\* redirect whose target is U with every character that cannot stand in a
\* URL percent-encoded; the target is exactly U when U is written in URL
\* characters only.
C1_RedirectEncodedU ==
    (res.op = "resolve" /\ IsFreshLink(res.param))
        => /\ res.status = 302
           /\ res.location = encodeUrl(CreatedUrl(res.param))
           /\ IsUrlText(CreatedUrl(res.param)) => res.location = CreatedUrl(res.param)

\* A link created with a url holding a non-ASCII character has been resolved,
\* and the target differs from the url.
C1_Witness ==
    /\ res.op = "resolve" /\ IsFreshLink(res.param)
    /\ res.status = 302
    /\ ~IsUrlText(CreatedUrl(res.param))
    /\ res.location # CreatedUrl(res.param)

\* C2: a resolve of short id S answers with the record's content (a redirect
\* for a link, a contact card for a vcard) exactly when a record with short
\* id S is in the store, and with not-found (404) otherwise.
C2_ResolveIffStored ==
    res.op = "resolve"
        => /\ res.status \in {302, 200} <=> (\E r \in qr_codes : r.short_id = res.param)
           /\ res.status = 404 <=> ~(\E r \in qr_codes : r.short_id = res.param)
           /\ \A r \in qr_codes :
                r.short_id = res.param
                    => res.status = (IF r.type = "link" THEN 302 ELSE 200)

\* A contact card has been resolved while the store holds it.
C2_Witness ==
    /\ res.op = "resolve" /\ res.status = 200 /\ res.text # <<>>
    /\ \E r \in qr_codes : r.short_id = res.param /\ r.type = "vcard"

\* C3 as stated: a list that follows a clear-all request, with no create in
\* between, returns the empty collection.
C3_ClearAllThenListEmpty ==
    (res.op = "list" /\ res.status = 200 /\ cleared) => res.rows = {}

\* C5 as stated: a create whose insert hit the unique constraint on short_id
\* is retried with a fresh short id, and fails with Conflict (409), not with
\* an internal error, when every attempt collides.
C5_CollisionRetried ==
    (res.op = "create" /\ res.collided) => (res.inserts > 1 /\ res.status \in {200, 409})

\* C6 as stated: a successful create never hands out a short id that an
\* earlier create has handed out, even when that record has been deleted.
C6_NeverReissued ==
    [][(res'.op = "create" /\ res'.status = 200 /\ qr_codes_id_seq' # qr_codes_id_seq)
          => res'.shortId \notin issued]_vars

\* C7: after a delete of a record has been answered with success, a resolve
\* of that record's short id answers with not-found, as long as no later
\* create has been given the same short id.
C7_DeletedNotResolved ==
    (res.op = "resolve" /\ res.param \in deleted) => res.status = 404

\* The short id of a deleted record has been resolved.
C7_Witness ==
    res.op = "resolve" /\ res.param \in deleted /\ res.param \in issued /\ res.status = 404

\* The key a request supplies: the X-API-Key header, else the api_key query
\* parameter.
SuppliedKey(r) == IF r.hdr # "" THEN r.hdr ELSE r.qry

\* C8: a management request whose supplied key is missing or differs from
\* the configured API_KEY is answered by the middleware, the handler makes
\* no query, the store is unchanged and the response carries no record; on
\* a server with API_KEY configured the answer is 401.
C8_BadKeyRejected ==
    [][(/\ res'.op \in ManagementOps
        /\ (SuppliedKey(res') = "" \/ SuppliedKey(res') # API_KEY))
          => /\ res'.handler = "authenticateAPIKey"
             /\ API_KEY # "" => res'.status = 401
             /\ res'.queries = 0 /\ res'.rows = {}
             /\ qr_codes' = qr_codes /\ qr_codes_id_seq' = qr_codes_id_seq]_vars

\* A delete of a stored record with a wrong key has been answered 401.
C8_Witness ==
    /\ API_KEY # ""
    /\ res.op = "delete" /\ res.hdr = "wrong" /\ res.status = 401
    /\ \E r \in qr_codes : ToString(r.id) = res.param

\* C9 as stated: with an API key configured, a management request that does
\* not carry the key in the X-API-Key header is answered 401.
C9_HeaderRequired ==
    (res.op \in ManagementOps /\ API_KEY # "" /\ res.hdr # API_KEY) => res.status = 401

\* Whether the validation stage accepts a create or update body.
Accepted(body) == validateQRCode(body) /\ ValidateBody(body).ok

\* C10: a create or update whose body the validation stage does not accept
\* is answered 400 without any query to the store, and the store is
\* unchanged.
C10_InvalidNeverStored ==
    [][(res'.op \in {"create", "update"} /\ ~Accepted(res'.body))
          => /\ res'.status = 400
             /\ res'.queries = 0 /\ res'.inserts = 0
             /\ qr_codes' = qr_codes /\ qr_codes_id_seq' = qr_codes_id_seq]_vars

\* An update of a stored record with a javascript: url has been answered 400.
C10_Witness ==
    /\ res.op = "update" /\ res.status = 400
    /\ res.body = LinkBody(UrlScript)
    /\ \E r \in qr_codes : ToString(r.id) = res.param

ContactFields == Range(allowed)

\* A text without the characters validator.escape replaces by entities.
IsEscapedText(s) == \A i \in DOMAIN s : s[i] \notin {"<", ">", "\"", "'"}

\* C11 as stated: the payload of every stored record is the validator's
\* output: a link holds its url and nothing else, a contact card only
\* recognized fields, each of them escaped.
C11_OnlyValidatedFields ==
    \A r \in qr_codes :
        /\ r.type = "link" => DOMAIN r.data.v = {"url"}
        /\ r.type = "vcard" =>
              /\ DOMAIN r.data.v \subseteq ContactFields
              /\ \A f \in DOMAIN r.data.v : IsEscapedText(r.data.v[f].v)

\* C12 as stated: the payload of every stored record matches its kind: a
\* link has a url and no contact field, a contact card has its names and no
\* url.
C12_PayloadMatchesKind ==
    \A r \in qr_codes :
        /\ r.type = "link" =>
              "url" \in DOMAIN r.data.v /\ DOMAIN r.data.v \cap ContactFields = {}
        /\ r.type = "vcard" =>
              "url" \notin DOMAIN r.data.v /\ {"firstName", "lastName"} \subseteq DOMAIN r.data.v

\* The lines of a vCard text, whichever line break separates them.
TextLines(text) == split(SelectSeq(text, LAMBDA c : c # "\r"), <<"\n">>)

OptionalFields == {"email", "phone", "organization", "title", "website"}

LabelOf(field) ==
    CASE field = "email" -> <<"E", "M", "A", "I", "L", ":">>
      [] field = "phone" -> <<"T", "E", "L", ":">>
      [] field = "organization" -> <<"O", "R", "G", ":">>
      [] field = "title" -> <<"T", "I", "T", "L", "E", ":">>
      [] field = "website" -> <<"U", "R", "L", ":">>

\* The lines the card of a record is to consist of: the four fixed lines,
\* a line for each optional field the record has, and the closing line.
LineOf(data, field) ==
    IF field \in DOMAIN data.v THEN <<LabelOf(field) \o data.v[field].v>> ELSE <<>>

ExpectedLines(data) ==
    << <<"B", "E", "G", "I", "N", ":", "V", "C", "A", "R", "D">>,
       <<"V", "E", "R", "S", "I", "O", "N", ":", "3", ".", "0">>,
       <<"F", "N", ":">> \o data.v["firstName"].v \o <<" ">> \o data.v["lastName"].v,
       <<"N", ":">> \o data.v["lastName"].v \o <<";">> \o data.v["firstName"].v
           \o <<";", ";", ";">> >>
    \o LineOf(data, "email") \o LineOf(data, "phone") \o LineOf(data, "organization")
    \o LineOf(data, "title") \o LineOf(data, "website")
    \o << <<"E", "N", "D", ":", "V", "C", "A", "R", "D">> >>

\* C18 as stated: the vCard text the resolver answers with consists of
\* BEGIN:VCARD, VERSION:3.0, FN, N, a line for each of EMAIL, TEL, ORG,
\* TITLE, URL that the record has, and END:VCARD, in this order and with no
\* other line, not even an empty one.
C18_ExactLines ==
    (res.op = "resolve" /\ res.status = 200 /\ res.text # <<>>)
        => \A r \in qr_codes :
              r.short_id = res.param => TextLines(res.text) = ExpectedLines(r.data)

\* C19 as stated: every line feed of the vCard text the resolver answers
\* with follows a carriage return.
C19_LinesEndWithCRLF ==
    (res.op = "resolve" /\ res.status = 200)
        => \A i \in DOMAIN res.text :
              res.text[i] = "\n" => (i > 1 /\ res.text[i - 1] = "\r")

\* The body a contact card under short id s was created from, while the
\* record has been neither updated nor deleted since.
IsFreshCard(s) == s \in DOMAIN fresh /\ fresh[s] # NoBody /\ fresh[s].type = "vcard"

HasLine(text, label) ==
    \E i \in DOMAIN TextLines(text) : startsWith(TextLines(text)[i], label)

IsLine(text, line) == \E i \in DOMAIN TextLines(text) : TextLines(text)[i] = line

\* The card of Jane Doe with her email and no phone.
JaneDoeCard(r) ==
    /\ r.status = 200
    /\ r.message = "text/vcard"
    /\ r.filename = Jane \o <<"-">> \o Doe \o <<".", "v", "c", "f">>
    /\ IsLine(r.text, <<"F", "N", ":">> \o Jane \o <<" ">> \o Doe)
    /\ IsLine(r.text, <<"E", "M", "A", "I", "L", ":">> \o JaneMail)
    /\ ~HasLine(r.text, <<"T", "E", "L", ":">>)

SubmittedNonBlank(data, field) ==
    /\ Truthy(Get(data, field))
    /\ \E i \in DOMAIN Get(data, field).v : ~IsWhitespace(Get(data, field).v[i])

-----------------------------------------------------------------------------
(* Properties of the in-memory server.                                      *)

\* C4 as stated: no two records in the in-memory server's store have the
\* same short id, whatever tokens the generator returns.
C4_UniqueShortIds ==
    \A i, j \in DOMAIN qrCodes : i # j => qrCodes[i].shortId # qrCodes[j].shortId

\* C14 as stated: the type of every record in the in-memory server's store
\* is link or vcard.
C14_ClosedTypes ==
    \A i \in DOMAIN qrCodes : qrCodes[i].type \in {"link", "vcard"}

-----------------------------------------------------------------------------
(* Properties of both servers.                                              *)

\* C13: an update answered with success leaves the id, the short id and the
\* creation time of the updated record as they were, leaves every other
\* record as it was, and adds or removes no record; in the authenticated
\* server and in the in-memory server.
C13_UpdateFrame ==
    [][(res'.op = "update" /\ res'.status = 200)
          => /\ Cardinality(qr_codes') = Cardinality(qr_codes)
             /\ \A r \in qr_codes :
                   \E q \in qr_codes' :
                      /\ q.id = r.id /\ q.short_id = r.short_id
                      /\ q.created_at = r.created_at
                      /\ ToString(r.id) # res'.param => q = r
             /\ Len(qrCodes') = Len(qrCodes)
             /\ \A i \in DOMAIN qrCodes :
                   /\ qrCodes'[i].id = qrCodes[i].id
                   /\ qrCodes'[i].shortId = qrCodes[i].shortId
                   /\ qrCodes'[i].createdAt = qrCodes[i].createdAt
                   /\ ToString(qrCodes[i].id) # res'.param => qrCodes'[i] = qrCodes[i]]_vars

\* A link of the authenticated server has been updated to a contact card at
\* a later time than it was created, next to another record.
C13_Witness ==
    /\ res.op = "update" /\ res.status = 200 /\ API_KEY = "secret"
    /\ Cardinality(qr_codes) = 2
    /\ \E r \in qr_codes :
          /\ ToString(r.id) = res.param
          /\ r.type = "vcard"
          /\ r.updated_at > r.created_at
          /\ fresh[r.short_id] = NoBody
          /\ r.short_id \in issued

-----------------------------------------------------------------------------
(* Properties of the validators.                                            *)

\* The scheme of a url: what stands before its first colon, leading
\* whitespace aside, in lower case.
SchemeOf(url) == toLowerCase(Before(trim(url), <<":">>))

DeniedSchemes ==
    {<<"j", "a", "v", "a", "s", "c", "r", "i", "p", "t">>,
     <<"d", "a", "t", "a">>,
     <<"v", "b", "s", "c", "r", "i", "p", "t">>,
     <<"f", "i", "l", "e">>,
     <<"f", "t", "p">>,
     <<"m", "a", "i", "l", "t", "o">>,
     <<"t", "e", "l">>,
     <<"s", "m", "s">>,
     <<"c", "h", "r", "o", "m", "e">>,
     <<"c", "h", "r", "o", "m", "e", "-", "e", "x", "t", "e", "n", "s", "i", "o", "n">>,
     <<"m", "o", "z", "-", "e", "x", "t", "e", "n", "s", "i", "o", "n">>,
     <<"a", "b", "o", "u", "t">>,
     <<"b", "l", "o", "b">>,
     <<"w", "s">>,
     <<"w", "s", "s">>,
     <<"g", "o", "p", "h", "e", "r">>,
     <<"l", "d", "a", "p">>,
     <<"l", "d", "a", "p", "s">>}

\* C15: validateUrl returns only for a url whose scheme is http or https,
\* and throws for every url whose scheme is on the deny list, in any letter
\* case and with leading whitespace.
C15_OnlyHttpSchemes ==
    (arg.fn = "validateUrl" /\ ret # Pending)
        => /\ ret.ok => SchemeOf(arg.value.v) \in {<<"h", "t", "t", "p">>,
                                                    <<"h", "t", "t", "p", "s">>}
           /\ SchemeOf(arg.value.v) \in DeniedSchemes => ~ret.ok

\* validateUrl has thrown for a javascript: url written with capitals and
\* leading whitespace.
C15_Witness ==
    /\ arg.fn = "validateUrl" /\ ret # Pending /\ ~ret.ok
    /\ SchemeOf(arg.value.v) = <<"j", "a", "v", "a", "s", "c", "r", "i", "p", "t">>
    /\ arg.value.v[1] = " "
    /\ arg.value.v # toLowerCase(arg.value.v)

\* A required field of a contact payload is absent, not a string, or empty
\* after trimming.
FieldMissing(data, field) ==
    \/ field \notin DOMAIN data.v
    \/ data.v[field].t # "string"
    \/ \A i \in DOMAIN data.v[field].v : IsWhitespace(data.v[field].v[i])

\* C16: validateVCardData throws for every contact payload in which
\* firstName or lastName is absent, is not a string, or is empty after
\* trimming, whatever the other fields are.
C16_RequiredNames ==
    (/\ arg.fn = "validateVCardData" /\ ret # Pending
     /\ (FieldMissing(arg.value, "firstName") \/ FieldMissing(arg.value, "lastName")))
        => ~ret.ok

\* validateVCardData has thrown for a payload whose lastName is whitespace
\* and whose other fields are all valid.
C16_Witness ==
    /\ arg.fn = "validateVCardData" /\ ret # Pending /\ ~ret.ok
    /\ arg.value.v = [f \in {"firstName", "lastName", "email"} |->
                        CASE f = "firstName" -> Str(Jane)
                          [] f = "lastName" -> Str(<<" ", "\t">>)
                          [] OTHER -> Str(JaneMail)]

\* The entities validator.escape writes.
Entities ==
    {<<"&", "a", "m", "p", ";">>, <<"&", "q", "u", "o", "t", ";">>,
     <<"&", "#", "x", "2", "7", ";">>, <<"&", "l", "t", ";">>, <<"&", "g", "t", ";">>,
     <<"&", "#", "x", "2", "F", ";">>, <<"&", "#", "x", "5", "C", ";">>,
     <<"&", "#", "9", "6", ";">>}

IsEntityAt(s, i) ==
    \E e \in Entities : i + Len(e) - 1 <= Len(s) /\ SubSeq(s, i, i + Len(e) - 1) = e

IsEscaped(s) ==
    \A i \in DOMAIN s :
        /\ s[i] \notin {"<", ">", "\"", "'"}
        /\ s[i] = "&" => IsEntityAt(s, i)

\* C17: every field of a payload validateVCardData returns is at most 100
\* characters long and holds no <, >, ", ' and no & other than at the start
\* of an entity; it is not shorter than the trimmed field submitted; and a
\* payload with a field whose escaped form is longer than 100 characters
\* makes validateVCardData throw.
C17_FieldsEscapedAndBounded ==
    (arg.fn = "validateVCardData" /\ ret # Pending)
        => /\ ret.ok =>
                \A f \in DOMAIN ret.value.v :
                    /\ Len(ret.value.v[f].v) <= 100
                    /\ IsEscaped(ret.value.v[f].v)
                    /\ Len(ret.value.v[f].v) >= Len(trim(arg.value.v[f].v))
           /\ (\E f \in DOMAIN arg.value.v \cap Range(allowed) :
                  /\ arg.value.v[f].t = "string"
                  /\ Len(escape(trim(arg.value.v[f].v))) > 100)
                => ~ret.ok

\* validateVCardData has returned a payload whose organization holds an
\* entity, for an input that also had a field it does not recognize.
C17_Witness ==
    /\ arg.fn = "validateVCardData" /\ ret # Pending /\ ret.ok
    /\ "organization" \in DOMAIN ret.value.v
    /\ \E i \in DOMAIN ret.value.v["organization"].v :
          IsEntityAt(ret.value.v["organization"].v, i)
    /\ "nickname" \in DOMAIN arg.value.v

-----------------------------------------------------------------------------
(* Properties of the public resolver in both servers.                      *)

-----------------------------------------------------------------------------
(* Further properties of the authenticated server (part_000).              *)

\* C24: a get, update, delete or image request of a key holder, with a body
\* that passes validation, for an id of which the table holds no row is
\* answered 404 and leaves the table as it was.
C24_AbsentIdNotFound ==
    [][(/\ res'.op \in {"get", "update", "delete", "image"}
        /\ res'.handler \notin {"authenticateAPIKey", "validateQRCode"}
        /\ res'.status # 400
        /\ IsBigint(res'.param)
        /\ EqId(qr_codes, res'.param) = {})
          => (res'.status = 404 /\ qr_codes' = qr_codes)]_vars

\* C25: while update requests for the same id overlap, in the authenticated
\* server and in the in-memory server, every write of a record's type or
\* data gives the record the type and the data of one request in flight,
\* both from the same request, so the record never holds the type of one
\* request with the data of another or a mixture of two payloads.
C25_NoHybrid ==
    [][/\ \A r \in qr_codes' :
             (\E r0 \in qr_codes :
                 r0.id = r.id /\ <<r0.type, r0.data>> # <<r.type, r.data>>)
                => \E q \in inflight :
                      /\ q.req.param = ToString(r.id)
                      /\ r.type = q.req.body.type
                      /\ r.data = ValidateBody(q.req.body).value
       /\ \A i \in DOMAIN qrCodes :
             (i \in DOMAIN qrCodes'
                /\ <<qrCodes[i].type, qrCodes[i].data>> # <<qrCodes'[i].type, qrCodes'[i].data>>)
                => \E q \in inflight :
                      /\ q.req.param = ToString(qrCodes[i].id)
                      /\ qrCodes'[i].type = q.req.body.type
                      /\ qrCodes'[i].data = q.req.body.data]_vars

\* The store has executed the queries of two update requests for the same
\* record with different payloads while neither has been answered.
C25_Witness ==
    \E q1, q2 \in inflight :
        /\ q1.req.param = q2.req.param
        /\ q1.req.body.type # q2.req.body.type
        /\ q1.stage = "executed" /\ q2.stage = "executed"
        /\ q1.req.rows # {} /\ q2.req.rows # {}
        /\ \E r \in qr_codes :
              /\ ToString(r.id) = q1.req.param
              /\ r.short_id \in issued
              /\ fresh[r.short_id] = NoBody

\* C28: a create and an update of an existing record that carry the same
\* body are both accepted or both refused, refused with the same status and
\* error, and when accepted they store the same kind and the same payload.
C28_SameValidation ==
    [][\A shortId \in ShortIds, r \in qr_codes :
          LET c == PostQr(Request("create", res'.hdr, res'.qry, "", res'.body),
                          shortId).res
              u == PutQr(Request("update", res'.hdr, res'.qry, ToString(r.id),
                                 res'.body)).res
          IN  /\ (/\ res'.op = "update" /\ res'.handler # "authenticateAPIKey"
                  /\ res'.param = ToString(r.id)
                  /\ ~UniqueViolation(qr_codes, shortId))
                 => /\ (res'.status = 200) = (c.status = 200)
                    /\ res'.status # 200
                          => res'.status = c.status /\ res'.message = c.message
                    /\ res'.status = 200
                          => \A n \in c.rows, q \in EqId(qr_codes', res'.param) :
                                q.type = n.type /\ q.data = n.data
              /\ (/\ res'.op = "create" /\ res'.handler # "authenticateAPIKey"
                  /\ ~res'.collided)
                 => /\ (res'.status = 200) = (u.status = 200)
                    /\ res'.status # 200
                          => res'.status = u.status /\ res'.message = u.message
                    /\ res'.status = 200
                          => \A n \in res'.rows, q \in u.rows :
                                q.type = n.type /\ q.data = n.data]_vars

\* A record has been updated with the body another record was created
\* from, a contact card that validation stores changed, and the two hold
\* the same kind and payload.
C28_Witness ==
    /\ res.op = "update" /\ res.status = 200 /\ API_KEY = "secret"
    /\ res.body.type = "vcard"
    /\ \E r, q \in qr_codes :
          /\ ToString(r.id) = res.param
          /\ q.id # r.id
          /\ fresh[q.short_id] = res.body
          /\ r.type = q.type /\ r.data = q.data
          /\ r.data # res.body.data

\* C36: while no API key is configured, every management request, with
\* whatever key or none, is answered 500 by the middleware, no handler
\* runs, no query is made, and the table and its id sequence stay as they
\* were.
C36_FailsClosed ==
    [][(API_KEY = "" /\ res'.op \in ManagementOps)
          => /\ res'.status = 500
             /\ res'.handler = "authenticateAPIKey"
             /\ res'.message = "API authentication not configured"
             /\ res'.queries = 0 /\ res'.inserts = 0
             /\ qr_codes' = qr_codes /\ qr_codes_id_seq' = qr_codes_id_seq]_vars

\* With no key configured, a create with a body that passes validation and
\* a key in its header has been turned away by the middleware.
C36_Witness ==
    /\ API_KEY = ""
    /\ res.op = "create" /\ res.hdr = "secret" /\ Accepted(res.body)
    /\ res.status = 500 /\ res.handler = "authenticateAPIKey"
    /\ qr_codes = {}

\* C37: an update of a contact card with the payload the table holds for
\* that card is answered with success and leaves the payload as it was.
C37_EchoAccepted ==
    [][\A r \in qr_codes :
          (/\ res'.op = "update" /\ res'.param = ToString(r.id)
           /\ r.type = "vcard"
           /\ res'.body = [type |-> "vcard", data |-> r.data])
             => /\ res'.status = 200
                /\ \A q \in qr_codes' : q.id = r.id => q.data = r.data]_vars

\* The error messages the handlers answer a failure with.
FixedMessages ==
    {"Failed to fetch QR codes", "Failed to fetch QR code", "Failed to create QR code",
     "Failed to update QR code", "Failed to delete QR code", "Failed to clear QR codes",
     "Failed to fetch QR code image"}

\* C27: a management request whose query the store answers with an error
\* makes that one query and no other, and is answered 500 with one of the
\* fixed messages of the server, which is not the error text of the store.
C27_StoreFailureInternal ==
    (res.op \in ManagementOps /\ Failed(res) /\ res.queries > 0)
        => /\ res.queries = 1
           /\ res.status = 500
           /\ res.message \in FixedMessages
           /\ res.message # res.storeError

-----------------------------------------------------------------------------
(* Properties of the in-memory server (server.js).                         *)

\* C23: a public GET /q/:shortId is answered with a 302 redirect to the
\* stored url for a link record, with the vCard text as an attachment for
\* a vcard record, and with 404 for a short id that has no record.
C23_ResolveResponses ==
    (res.op = "resolve" /\ res.handler = "GET /q/:shortId" /\ API_KEY = "")
        => LET index == FindIndexByShortId(qrCodes, res.param)
           IN  IF index = 0 THEN res.status = 404
               ELSE IF qrCodes[index].type = "link"
               THEN /\ res.status = 302
                    /\ res.location = Get(qrCodes[index].data, "url").v
               ELSE IF qrCodes[index].type = "vcard"
               THEN /\ res.status = 200
                    /\ res.message = "text/vcard"
                    /\ res.text = generateVCard(qrCodes[index].data)
               ELSE TRUE

\* C26: in the in-memory server, an update answered with success sets the
\* record's updatedAt to the time of the update, which is not earlier than
\* the record's previous updatedAt or its createdAt; an update that is not
\* answered with success leaves the array as it was; and no step changes
\* the createdAt of a record.
C26_Timestamps ==
    [][API_KEY = "" =>
          /\ (res'.op = "update" /\ res'.status = 200 /\ now' = now)
                => \E i \in DOMAIN qrCodes :
                      /\ ToString(qrCodes[i].id) = res'.param
                      /\ qrCodes'[i].updatedAt = now
                      /\ qrCodes'[i].updatedAt >= qrCodes[i].updatedAt
                      /\ qrCodes'[i].updatedAt >= qrCodes[i].createdAt
          /\ (res'.op = "update" /\ res'.status # 200) => qrCodes' = qrCodes
          /\ \A i \in DOMAIN qrCodes, j \in DOMAIN qrCodes' :
                qrCodes'[j].id = qrCodes[i].id
                   => qrCodes'[j].createdAt = qrCodes[i].createdAt]_vars

\* A record of the in-memory server has been updated at a later time than
\* it was created.
C26_Witness ==
    /\ API_KEY = "" /\ res.op = "update" /\ res.status = 200
    /\ \E i \in DOMAIN qrCodes :
          /\ ToString(qrCodes[i].id) = res.param
          /\ qrCodes[i].updatedAt = now
          /\ qrCodes[i].updatedAt > qrCodes[i].createdAt

\* The short ids of the records a response of the in-memory server is
\* about.
Reported(r) ==
    CASE r.op = "create" -> {r.shortId}
      [] r.op = "list" -> {code.shortId : code \in Range(qrCodes)}
      [] OTHER -> {code.shortId : code \in {c \in Range(qrCodes) : ToString(c.id) = r.param}}

\* C29 as stated: create, list, get and the image download each give
\* every record they are about the url made of the base origin, /q/ and
\* the short id of the record, under every configuration.
C29_QrUrlAtBaseOrigin ==
    (res.op \in {"create", "list", "get", "image"} /\ res.status = 200)
        => res.qrUrls = {<<s, getBaseUrl(res.headers) \o <<"/", "q", "/">> \o <<s>>>> :
                            s \in Reported(res)}

\* C29: create, list, get and the image download each give every record
\* they are about the same url: the custom short domain, a slash and the
\* short id when a custom short domain is configured, and otherwise the
\* base origin, /q/ and the short id.
C29_QrUrlOfRecord ==
    (res.op \in {"create", "list", "get", "image"} /\ res.status = 200)
        => res.qrUrls =
              {<<s, IF CUSTOM_SHORT_DOMAIN # <<>>
                    THEN CUSTOM_SHORT_DOMAIN \o <<"/">> \o <<s>>
                    ELSE getBaseUrl(res.headers) \o <<"/", "q", "/">> \o <<s>>>> :
                  s \in Reported(res)}

\* With a custom short domain and a base url configured, a client behind
\* a proxy has downloaded the image of one of two records.
C29_Witness ==
    /\ res.op = "image" /\ res.status = 200
    /\ CUSTOM_SHORT_DOMAIN # <<>> /\ BASE_URL # <<>>
    /\ res.headers = Proxied
    /\ Len(qrCodes) = 2
    /\ res.qrUrls # {}

\* C33: the ids of the in-memory server are handed out in increasing order
\* and never again: every record a step adds has an id that is at least
\* the counter, which lies above the id of every record created before
\* and never goes down, and no two stored records have the same id.
C33_IdsIncrease ==
    [][/\ nextId' >= nextId
       /\ \A i \in DOMAIN qrCodes : qrCodes[i].id < nextId
       /\ \A i \in DOMAIN qrCodes' :
             /\ qrCodes'[i].id < nextId'
             /\ (\A j \in DOMAIN qrCodes : qrCodes[j].id # qrCodes'[i].id)
                   => qrCodes'[i].id >= nextId
             /\ \A j \in DOMAIN qrCodes' : qrCodes'[j].id = qrCodes'[i].id => i = j]_vars

\* A record has been created after the only record before it was deleted,
\* and has the next id.
C33_Witness ==
    /\ API_KEY = ""
    /\ res.op = "create" /\ res.status = 200
    /\ Len(qrCodes) = 1
    /\ qrCodes[1].id = 2
    /\ nextId = 3

\* C35: every resolve request that has arrived is answered: a request that
\* is open is closed later by its response.
C35_ResolveAnswered ==
    \A s \in ShortIds \cup {"unknown"} : Open(s) ~> ~Open(s)

-----------------------------------------------------------------------------
(* Properties of the hardened in-memory server (part_001).                 *)

\* C22: the public resolver answers every request for a short id that has
\* no record with the same not-found response, 404 "QR code not found",
\* whether the short id has eight characters or any other length.
C22_UniformNotFound ==
    (res.handler = "handleQRRedirect" /\ FindIndexByShortId(qrCodes, res.shortId) = 0)
        => (res.status = 404 /\ res.message = "QR code not found")

\* C30: under every configuration of BASE_URL and CUSTOM_SHORT_DOMAIN, a GET
\* of the path of the url reported for a stored record is handed to the
\* resolver and answered with the page of that record, whatever short id
\* the generator gave the record.
C30_QrUrlResolves ==
    \A i \in DOMAIN qrCodes, h \in {Direct, Proxied} :
        (res.op = "visit" /\ res.param = Pathname(HardQrUrl(h, qrCodes[i].shortId)))
            => /\ res.handler = "handleQRRedirect"
               /\ res.status = 200
               /\ res.rows = {qrCodes[i]}

\* C38: in production a create, a get or a GET of a public path that does
\* not carry x-forwarded-proto: https is answered with the redirect to the
\* https url by the middleware, and the array and the counter stay as they
\* were.
C38_HttpsFirst ==
    [][(/\ NODE_ENV = "production"
        /\ res'.op \in {"create", "get", "visit"}
        /\ res'.headers.forwardedProto # Https)
          => /\ res'.handler = "https redirect"
             /\ res'.status = 302
             /\ qrCodes' = qrCodes /\ nextId' = nextId]_vars

-----------------------------------------------------------------------------
(* Properties of the writes of both servers.                                *)

\* C34: a create request answered with an error status leaves the table of
\* the authenticated server and the array of the in-memory server as they
\* were.
C34_FailedCreateStoresNothing ==
    [][(res'.op = "create" /\ res'.status >= 400)
          => qr_codes' = qr_codes /\ qrCodes' = qrCodes]_vars

-----------------------------------------------------------------------------
(* Properties of the Netlify functions (part_005, part_006).               *)

\* C31: a GET of the redirect function for the short id of a record the
\* API function holds is answered with the redirect or the vCard of that
\* record, never with 404.
C31_RedirectFindsCreated ==
    (/\ res.handler = "redirect" /\ res.status # 405
     /\ FindIndexByShortId(api_qrCodes, res.param) # 0)
        => res.status \in {200, 302}

\* C32: no two records the API function holds have the same id.
C32_IdsUnique ==
    \A i, j \in DOMAIN api_qrCodes : api_qrCodes[i].id = api_qrCodes[j].id => i = j

=============================================================================
